---- MODULE Spec2Model ----
(***************************************************************************)
(* A model of miniclaw_go: the in-memory message bus, the agent's ReAct    *)
(* loop with its history and session log, and the filesystem tools.        *)
(***************************************************************************)
EXTENDS Integers, Sequences, FiniteSets, Bags, TLC

(***************************************************************************)
(* Bounds of the model.                                                    *)
(***************************************************************************)
\* test handlers that may subscribe to the bus
NumHandlers == 3
\* messages allocated and published on the bus
MaxMsgs == 1

\* capacity of messageCh as modelled: one slot fewer than the messages ever
\* published, so that a Publish can find the queue full; the program
\* allocates 100 slots
QueueCap == IF MaxMsgs > 1 THEN MaxMsgs - 1 ELSE 1

\* Agent.maxIterations as configured (the program's default is 10)
MaxIterations == 2
\* tool calls listed in one LLM response
MaxCalls == 2
\* user messages the transports publish
MaxUserMsgs == 1
\* turns the agent begins
MaxTurns == 2

\* getChatHistory loads at most the last 50 entries of the session log
HistoryLimit == 50
\* components of a file tool's path argument, and file tool calls in a run
MaxPathLen == 2
MaxFileCalls == 2
\* direct calls of the ToolExecutor in a run
MaxToolRuns == 2
\* characters of one field of a cron expression, and parseField calls in a run
MaxFieldLen == 4
MaxParses == 1
\* Next calls chained on one schedule: Next(t), Next(Next(t)), ...
MaxNexts == 2
\* a minute holds every value of the second field once
SecondsPerMinute == 60
\* the scheduler's clock stops after this many half seconds
MaxNow == 4
\* TriggerTask calls made in a run
MaxTriggers == 1
\* capacity of taskChan and of resultChan as the runs configure them (the
\* program's is 100)
TaskChanCap == 1
\* process starts in a run of the task manager
MaxBoots == 2
\* Publish calls made on a full queue
MaxBlocked == 1
\* time.After(5 * time.Second) in Publish
PublishTimeout == 5
\* readings of the wall clock that Subscribe can see
MaxWall == 2
\* Unsubscribe calls made with one handler ID
MaxUnsubs == 2
\* calls made to the remote-tool manager and to its tools in a run
MaxMCPCalls == 3
\* Complete calls made to the provider in a run
MaxCompletes == 1
\* maxRetries := 3 in Complete
MaxRetries == 3
\* calls made to the skill registry in a run
MaxSkillOps == 3
\* changes made to the fields of a skill object from outside the registry
MaxMutations == 1
\* Select calls looked at in a run
MaxSelects == 2
\* operations on the files of the skills directory in a run
MaxFileOps == 3
\* how far the watcher's clock runs, in quarters of a second
MaxWatchNow == 4
\* 500 * time.Millisecond in handleFileEvent, in quarters of a second
DebounceTicks == 2
\* maxRequests of the RateLimiter (60 for OpenAI, 50 for Anthropic), scaled
\* down, and its timeWindow in units of the retry delay (a second)
RateLimit == 2
RateWindow == 4
\* Complete calls made through the limiter, and how far its clock runs
MaxRateCalls == 2
MaxRateNow == 5
\* Threshold: 0.5 and MaxActive: 5 of the default SelectionConfig; scores are
\* counted in hundredths
Threshold == 50
MaxActive == 5

(***************************************************************************)
(* Bus constants (src/internal/bus/message.go:10-14).                      *)
(***************************************************************************)
ChannelTelegram == "telegram"
ChannelWebSocket == "websocket"
ChannelCLI == "cli"

\* topics the test handlers use
BusTopics == {ChannelCLI, ChannelTelegram}

Handlers == 1..NumHandlers

\* the topic a test handler subscribes to: the first one to telegram, the
\* others to cli
TopicOf(h) == IF h = 1 THEN ChannelTelegram ELSE ChannelCLI

\* the agent's HandleMessage and the transports' handlers, as subscribers
AgentHandler == 0
TransportHandler == NumHandlers + 1

\* the zero value of Message.Channel and Message.Timestamp before Publish
NoChannel == ""
ZeroTime == 0

VARIABLES
    \* ---- InMemoryMessageBus
    subscribers,   \* topic -> set of subscribed handlers (handlerID = handler)
    messageCh,     \* the buffered channel: sequence of *Message
    chClosed,      \* close(messageCh) has run
    ctxDone,       \* b.cancel() has run (b.ctx is done)
    wg,            \* sync.WaitGroup counter
    dispPc,        \* processMessages: "notstarted" | "select" | "fanout" | "exited"
    dispMsg,       \* the message being fanned out (a sequence of length <= 1)
    dispVisited,   \* handlers already visited by the range over the handler map
    dispSnapshot,  \* the handler map as it was when the range began
    goroutines,    \* handler tasks: [h, msg, st] with st "spawned" | "running"
    closePc,       \* Close: "idle" | "waiting" | "closing" | "returned"
    crashed,       \* the process died of an unrecovered panic / fatal error
    \* ---- bookkeeping of the bus runs (history)
    clock,         \* time.Now(), strictly positive
    nextPtr,       \* next message allocation
    pubLog,        \* per allocated message: the Publish call made for it
    deliveries,    \* bag of [h, msg]: handler h was invoked with message msg
    fanned,        \* ptrs whose fan-out loop has finished
    lateStarts,    \* handler invocations begun after Close returned
    \* ---- Agent
    llmManager,    \* TRUE iff NewMultiModelManager succeeded (a.llmManager != nil)
    chatHistory,   \* the cache: chatID -> list of llm.Message (a partial map)
    sessionLog,    \* sessions/<chatID>/messages.jsonl, one storage.Message per line
    turns,         \* HandleMessage calls in progress, by the inbound message's ptr
    \* ---- bookkeeping of the agent runs (history)
    userCount,     \* user messages published by the transports
    turnLog,       \* HandleMessage calls that have ended, by inbound ptr
    conversation,  \* chatID -> the exchange: each inbound text and its reply
    \* ---- the disk under and around FileStorage.basePath
    fsFiles,       \* absolute path -> content, for every regular file
    fsDirs,        \* absolute paths of the directories
    fsCalls,       \* the file tool calls made so far (history)
    \* ---- direct callers of the ToolExecutor (history)
    toolRuns,      \* the Execute / ExecuteMultiple calls made and what they returned
    \* ---- CronParser / CronSchedule
    cronParsed,    \* the parseField calls made and what they returned (history)
    cronSearch,    \* the Next call in progress: schedule, instant examined, results
    \* ---- Scheduler, TaskManager and the process around them
    scheduler,     \* the Scheduler struct: running, ctx, ticker, the two channels
    tasks,         \* Scheduler.tasks: task ID -> the Task it points to
    schedLoops,    \* run and processTasks: "notstarted" | "select" | "exited"
    executions,    \* the executeTask goroutines spawned, in spawn order
    schedNow,      \* time.Now() as the scheduler reads it
    tasksFile,     \* the tasks file: <<>> if absent, else <<list of TaskConfig>>
    manager,       \* TaskManager and main: started, ctx, the package-level pointer
    schedHist,     \* what Stop, TriggerTask, the tick loop and shutdown did (history)
    \* ---- goroutines inside the shared objects
    accesses,      \* goroutine -> <<>>, or <<[op, seg]>>: the access it is inside
    \* ---- Publish calls followed through their select
    pubCalls,      \* the calls in order: message, seconds waited, ctx, outcome
    \* ---- the handler IDs of the bus
    handlerIDs,    \* b.subscribers with its keys: topic -> (handlerID -> handler)
    wallClock,     \* time.Now().UnixNano() as Subscribe reads it
    subCalls,      \* per handler: the ID its Subscribe returned, its Unsubscribes
    \* ---- MCPClient, its JSONRPCProtocol, MCPManager and the tool registry
    mcpClient,     \* connected, initialized, tools, and the protocol's requestID
    mcpRegistry,   \* ToolRegistry.tools: tool name -> the tool registered
    mcpWire,       \* the JSON-RPC requests sent so far, in order (history)
    mcpCalls,      \* the Connect / ExecuteTool calls made and their outcome
    mcpRoutines,   \* goroutines inside CallTool: where they are, what they read
    \* ---- an LLM provider and its Monitor
    llmCall,       \* the Complete call in progress: attempt, requests made
    llmMetrics,    \* Monitor.metrics: TotalRequests, SuccessfulReqs, FailedReqs
    llmLog,        \* the Complete calls that have returned (history)
    \* ---- the skill registry and its index
    skObjs,        \* the Skill objects on the heap: pointer -> fields
    skRegistry,    \* SkillRegistry.skills: skill ID -> pointer
    skIndex,       \* SkillIndex: byName, byTag, byCategory, byKeyword
    skLast,        \* the last registry call and what it saw (history)
    skBudget,      \* registry calls and outside changes made so far
    \* ---- the skill selector
    selCfg,        \* the SelectionConfig and whether an LLM provider is set
    selCalls,     \* the Select calls made and what they returned (history)
    \* ---- the skill file watcher and the directory it watches
    wFiles,        \* the files of the skills directory: path -> content
    wSkills,       \* the registry the watcher feeds: skill ID -> skill
    wEvents,       \* watcher.Events: the file events not yet received
    wWatcher,      \* the watcher: watching or not, and its debounce map
    wSleepers,     \* goroutines of handleFileEvent: the event and when they wake
    wNow,          \* the time, in quarters of a second
    wHist,        \* file operations made, last event per path, last calls (history)
    \* ---- a provider's RateLimiter
    rlRequests,    \* RateLimiter.requests: the times of the slots given out
    rlNow,         \* the time, in the units of the window
    rlCall,        \* the Complete call in progress: where it is, its attempt
    rlSent         \* the times at which requests went to the remote API (history)

busVars == <<subscribers, messageCh, chClosed, ctxDone, wg, dispPc, dispMsg,
             dispVisited, dispSnapshot, goroutines, closePc, crashed>>
busHist == <<clock, nextPtr, pubLog, deliveries, fanned, lateStarts>>

agentVars == <<llmManager, chatHistory, sessionLog, turns>>
agentHist == <<userCount, turnLog, conversation>>

fsVars == <<fsFiles, fsDirs, fsCalls>>

toolVars == <<toolRuns>>

\* the state of the parts that the bus, the agent and the file tools leave alone
cronVars == <<cronParsed, cronSearch>>

schedVars == <<scheduler, tasks, schedLoops, executions, schedNow, tasksFile,
               manager, schedHist>>

lockVars == <<accesses>>

\* Publish calls, the remote-tool client, the LLM provider, the skill registry
pubVars == <<pubCalls>>
idVars == <<handlerIDs, wallClock, subCalls>>
mcpVars == <<mcpClient, mcpRegistry, mcpWire, mcpCalls, mcpRoutines>>
llmVars == <<llmCall, llmMetrics, llmLog>>
skillVars == <<skObjs, skRegistry, skIndex, skLast, skBudget>>
selVars == <<selCfg, selCalls>>
watchVars == <<wFiles, wSkills, wEvents, wWatcher, wSleepers, wNow, wHist>>
rateVars == <<rlRequests, rlNow, rlCall, rlSent>>
svcVars == <<pubVars, idVars, mcpVars, llmVars, skillVars, selVars,
             watchVars, rateVars>>
\* what the actions of one of these groups leave alone
coreVars == <<agentVars, agentHist, fsVars, toolVars, cronVars, schedVars,
              lockVars>>
exceptPub == <<coreVars, idVars, mcpVars, llmVars, skillVars, selVars,
               watchVars, rateVars>>
exceptIDs == <<coreVars, pubVars, mcpVars, llmVars, skillVars, selVars,
               watchVars, rateVars>>
exceptMCP == <<busVars, busHist, coreVars, pubVars, idVars, llmVars,
               skillVars, selVars, watchVars, rateVars>>
exceptLLM == <<busVars, busHist, coreVars, pubVars, idVars, mcpVars,
               skillVars, selVars, watchVars, rateVars>>
exceptSkills == <<busVars, busHist, coreVars, pubVars, idVars, mcpVars,
                  llmVars, selVars, watchVars, rateVars>>
exceptSel == <<busVars, busHist, coreVars, pubVars, idVars, mcpVars, llmVars,
               skillVars, watchVars, rateVars>>
exceptWatch == <<busVars, busHist, coreVars, pubVars, idVars, mcpVars,
                 llmVars, skillVars, selVars, rateVars>>
exceptRate == <<busVars, busHist, coreVars, pubVars, idVars, mcpVars,
                llmVars, skillVars, selVars, watchVars>>

restVars == <<toolVars, cronVars, schedVars, lockVars, svcVars>>

vars == <<busVars, busHist, agentVars, agentHist, fsVars, restVars>>

(***************************************************************************)
(* Message (src/internal/bus/message.go:16-23).  ptr is the identity of    *)
(* the allocated object; ID is "agent-" repeated depth times before n.     *)
(***************************************************************************)
\* A text (Message.Content, llm.Message.Content, an LLM response body) is
\* kept by what the code can tell about it: whether it parses as the JSON
\* object {thought, tool_calls, final_answer}, and what those fields hold.
\*   kind  "plain"  not JSON            "json"  a JSON object of that shape
\*         "notice" the no-LLM notice   "obs"   "Tool execution results:\n"
\*                                              + the records as JSON
Text(kind, final, calls, results, n) ==
    [kind |-> kind, final |-> final, calls |-> calls, results |-> results,
     n |-> n]

UserText(n) == Text("plain", "", <<>>, <<>>, n)

NewMessage(ptr, id, chat, content) ==
    [ptr |-> ptr, ID |-> id, Channel |-> NoChannel, ChatID |-> chat,
     Content |-> content, Timestamp |-> ZeroTime]

UserID(n) == [n |-> n, depth |-> 0]

\* fmt.Sprintf("agent-%s", msg.ID)
AgentID(id) == [id EXCEPT !.depth = @ + 1]

\* Publish stamps the message: msg.Channel = channel; msg.Timestamp = time.Now()
Stamp(msg, channel, now) ==
    [msg EXCEPT !.Channel = channel, !.Timestamp = now]

\* The outcomes of the select in Publish.  A send on a closed channel
\* panics; a done caller context lets the select return ctx.Err() instead;
\* a full queue ends in ErrTimeout after 5 s.
PublishOutcomes(ch, closed, callerDone) ==
    (IF closed THEN {"panic"}
     ELSE IF Len(ch) < QueueCap THEN {"ok"} ELSE {"timeout"})
    \cup (IF callerDone THEN {"ctx_err"} ELSE {})

\* the handler map looked up for a message by processMessages
HandlersForAnyTopic(subs, msg) == UNION {subs[t] : t \in DOMAIN subs}

HandlersFor(subs, msg) ==
    IF msg.Channel \in DOMAIN subs THEN subs[msg.Channel] ELSE {}

(***************************************************************************)
(* The file tools of package filetools over storage.FileStorage.  A path   *)
(* is the sequence of its components; an absolute path starts at the root. *)
(***************************************************************************)
\* storage.NewFileStorage(basePath)
Base == <<"base">>
Components == {"..", "f", "d", "s"}
PathArgs == UNION {[1..k -> Components] : k \in 0..MaxPathLen}
Contents == {"x", "y"}

\* filepath.Clean of a rooted path: ".." drops the last component, and is
\* dropped itself at the root
RECURSIVE Clean(_, _)
Clean(acc, rest) ==
    IF rest = <<>> THEN acc
    ELSE IF Head(rest) = ".."
         THEN Clean(IF acc = <<>> THEN acc ELSE SubSeq(acc, 1, Len(acc) - 1),
                    Tail(rest))
         ELSE Clean(Append(acc, Head(rest)), Tail(rest))

\* filepath.Join(fs.basePath, path)
Join(base, path) == Clean(<<>>, base \o path)
\* filepath.Dir
Dir(full) == IF full = <<>> THEN full ELSE SubSeq(full, 1, Len(full) - 1)

Prefixes(full) == {SubSeq(full, 1, k) : k \in 0..Len(full)}
IsPrefix(a, b) == a \in Prefixes(b)
StrictlyInside(full) == IsPrefix(Base, full) /\ full # Base

\* the disk main starts on: a file and a directory under the base, and a
\* file next to the base
InitialDisk ==
    [files |-> (<<"base", "f">> :> "x") @@ (<<"s">> :> "x"),
     dirs |-> {<<>>, Base, <<"base", "d">>}]

\* os.Stat: "" when the path exists
Stat(disk, full) ==
    IF full \in DOMAIN disk.files \/ full \in disk.dirs THEN ""
    ELSE IF \E q \in Prefixes(full) : q \in DOMAIN disk.files THEN "ENOTDIR"
    ELSE "ENOENT"

\* FileStorage.ReadFile
StorageReadFile(disk, path) ==
    LET fullPath == Join(Base, path)
    IN IF fullPath \in DOMAIN disk.files
       THEN [disk |-> disk, err |-> "", data |-> disk.files[fullPath]]
       ELSE [disk |-> disk, data |-> "",
             err |-> IF fullPath \in disk.dirs THEN "EISDIR"
                     ELSE Stat(disk, fullPath)]

\* FileStorage.WriteFile: os.MkdirAll(dir), then os.WriteFile
StorageWriteFile(disk, path, data) ==
    LET fullPath == Join(Base, path)
        dir == Dir(fullPath)
        made == [disk EXCEPT !.dirs = @ \cup Prefixes(dir)]
    IN IF \E q \in Prefixes(dir) : q \in DOMAIN disk.files
       THEN [disk |-> disk, err |-> "failed to create directory"]
       ELSE IF fullPath \in made.dirs
       THEN [disk |-> made, err |-> "EISDIR"]
       ELSE [disk |-> [made EXCEPT !.files = (fullPath :> data) @@ @],
             err |-> ""]

\* FileStorage.DeleteFile: os.Remove takes a file or an empty directory
StorageDeleteFile(disk, path) ==
    LET fullPath == Join(Base, path)
        children == {q \in DOMAIN disk.files \cup disk.dirs :
                        q # fullPath /\ Dir(q) = fullPath}
    IN IF fullPath \in DOMAIN disk.files
       THEN [disk |-> [disk EXCEPT !.files =
                          [q \in DOMAIN disk.files \ {fullPath} |-> disk.files[q]]],
             err |-> ""]
       ELSE IF fullPath \in disk.dirs
       THEN IF children = {} /\ fullPath # <<>>
            THEN [disk |-> [disk EXCEPT !.dirs = @ \ {fullPath}], err |-> ""]
            ELSE [disk |-> disk, err |-> "ENOTEMPTY"]
       ELSE [disk |-> disk, err |-> Stat(disk, fullPath)]

\* FileStorage.ListFiles: the regular files filepath.Walk meets
StorageListFiles(disk, prefix) ==
    LET fullPath == Join(Base, prefix)
    IN IF Stat(disk, fullPath) = "ENOENT"
       THEN [disk |-> disk, err |-> "", files |-> {}]
       ELSE IF Stat(disk, fullPath) # ""
       THEN [disk |-> disk, err |-> "failed to list files", files |-> {}]
       ELSE [disk |-> disk, err |-> "",
             files |-> {q \in DOMAIN disk.files : IsPrefix(fullPath, q)}]

\* FileStorage.FileExists
StorageFileExists(disk, path) ==
    LET fullPath == Join(Base, path)
    IN IF Stat(disk, fullPath) = "" THEN [disk |-> disk, err |-> "", exists |-> TRUE]
       ELSE IF Stat(disk, fullPath) = "ENOENT"
       THEN [disk |-> disk, err |-> "", exists |-> FALSE]
       ELSE [disk |-> disk, err |-> Stat(disk, fullPath), exists |-> FALSE]

\* what is kept of one tool call: the ToolError code ("" on success), whether
\* the disk changed, and the paths whose content, name or existence the
\* result reports
FileCall(tool, path, code, before, after, reported) ==
    [tool |-> tool, path |-> path, full |-> Join(Base, path), code |-> code,
     changed |-> after # before, reported |-> reported]

Disk == [files |-> fsFiles, dirs |-> fsDirs]

FileCallDone(call, after) ==
    /\ fsFiles' = after.files
    /\ fsDirs' = after.dirs
    /\ fsCalls' = Append(fsCalls, call)
    /\ UNCHANGED <<busVars, busHist, agentVars, agentHist, restVars>>

\* ReadFileTool.Execute
ReadFileTool(path) ==
    /\ Len(fsCalls) < MaxFileCalls
    /\ LET r == StorageReadFile(Disk, path)
       IN IF path = <<>>
          THEN FileCallDone(FileCall("read_file", path, "INVALID_PARAM",
                                     Disk, Disk, {}), Disk)
          ELSE FileCallDone(FileCall("read_file", path,
                                IF r.err # "" THEN "EXECUTION_FAILED" ELSE "",
                                Disk, r.disk,
                                IF r.err # "" THEN {} ELSE {Join(Base, path)}),
                            r.disk)

\* WriteFileTool.Execute
WriteFileTool(path, content) ==
    /\ Len(fsCalls) < MaxFileCalls
    /\ LET r == StorageWriteFile(Disk, path, content)
       IN IF path = <<>>
          THEN FileCallDone(FileCall("write_file", path, "INVALID_PARAM",
                                     Disk, Disk, {}), Disk)
          ELSE FileCallDone(FileCall("write_file", path,
                                IF r.err # "" THEN "EXECUTION_FAILED" ELSE "",
                                Disk, r.disk, {}),
                            r.disk)

\* ListDirTool.Execute: a missing path parameter is the empty path
ListDirTool(path) ==
    /\ Len(fsCalls) < MaxFileCalls
    /\ LET r == StorageListFiles(Disk, path)
       IN FileCallDone(FileCall("list_dir", path,
                           IF r.err # "" THEN "EXECUTION_FAILED" ELSE "",
                           Disk, r.disk, r.files),
                       r.disk)

\* DeleteFileTool.Execute: a file that does not exist is not an error
DeleteFileTool(path) ==
    /\ Len(fsCalls) < MaxFileCalls
    /\ LET r == StorageDeleteFile(Disk, path)
       IN IF path = <<>>
          THEN FileCallDone(FileCall("delete_file", path, "INVALID_PARAM",
                                     Disk, Disk, {}), Disk)
          ELSE FileCallDone(FileCall("delete_file", path,
                                IF r.err \notin {"", "ENOENT"}
                                THEN "EXECUTION_FAILED" ELSE "",
                                Disk, r.disk, {}),
                            r.disk)

\* FileExistsTool.Execute
FileExistsTool(path) ==
    /\ Len(fsCalls) < MaxFileCalls
    /\ LET r == StorageFileExists(Disk, path)
       IN IF path = <<>>
          THEN FileCallDone(FileCall("file_exists", path, "INVALID_PARAM",
                                     Disk, Disk, {}), Disk)
          ELSE FileCallDone(FileCall("file_exists", path,
                                IF r.err # "" THEN "EXECUTION_FAILED" ELSE "",
                                Disk, r.disk,
                                IF r.err # "" THEN {} ELSE {Join(Base, path)}),
                            r.disk)

\* no file tool has been called
DiskIdle ==
    /\ fsFiles = InitialDisk.files
    /\ fsDirs = InitialDisk.dirs
    /\ fsCalls = <<>>

\* the empty map
EmptyMap == <<>>

\* nothing has called the ToolExecutor directly
ToolsIdle == toolRuns = <<>>

\* no cron expression has been parsed
CronIdle ==
    /\ cronParsed = <<>>
    /\ cronSearch = [pc |-> "idle", schedule |-> <<>>, from |-> 0, t |-> 0,
                      scanned |-> 0, results |-> <<>>]

\* NewScheduler(config): the ticker runs from construction on
NewScheduler ==
    [running |-> FALSE, ctxDone |-> FALSE, tickerStopped |-> FALSE,
     tickerC |-> 0, taskChan |-> <<>>, resultChan |-> <<>>, closed |-> FALSE,
     panicked |-> FALSE]

\* NewTaskManager(scheduler, config) and main's package-level taskManager,
\* which is nil until something assigns it
NewTaskManager ==
    [started |-> FALSE, ctxDone |-> FALSE, global |-> "nil", local |-> "nil",
     boots |-> 1, shutdown |-> "idle"]

NoSchedHist ==
    [stopped |-> FALSE, triggers |-> <<>>, fires |-> <<>>, loaded |-> <<>>]

\* a scheduler and a task manager that are constructed, with no tasks file
SchedIdle ==
    /\ scheduler = NewScheduler
    /\ tasks = EmptyMap
    /\ schedLoops = [run |-> "notstarted", proc |-> "notstarted"]
    /\ executions = <<>>
    /\ schedNow = 1
    /\ tasksFile = <<>>
    /\ manager = NewTaskManager
    /\ schedHist = NoSchedHist

\* the goroutines: two bus handler tasks running Agent.HandleMessage, the
\* scheduler's tick loop, a task worker, and a caller of the scheduler's API
Threads == {"handler1", "handler2", "tick", "worker", "caller"}

\* no goroutine is inside a shared object
LocksIdle == accesses = [t \in Threads |-> <<>>]

\* no Publish call is being followed through its select
PubIdle == pubCalls = <<>>

\* no handler has been subscribed through an ID
NoID == [channel |-> NoChannel, nanos |-> 0, n |-> 0]

IDsIdle ==
    /\ handlerIDs = [t \in BusTopics |-> EmptyMap]
    /\ wallClock = 1
    /\ subCalls = [h \in Handlers |-> [id |-> NoID, pubs |-> 0, unsubs |-> <<>>]]

\* NewClient(config): not connected, no tools, no protocol yet
NewClient ==
    [connected |-> FALSE, initialized |-> FALSE, tools |-> {},
     protocol |-> 0, requestID |-> <<>>]

\* goroutines that call tools through the client
Routines == {"r1", "r2"}

\* a client added to a manager over a registry that holds one local tool
MCPIdle ==
    /\ mcpClient = NewClient
    /\ mcpRegistry = (<<"local">> :> [kind |-> "local", name |-> <<"local">>])
    /\ mcpWire = <<>>
    /\ mcpCalls = <<>>
    /\ mcpRoutines = [r \in Routines |->
                         [pc |-> "idle", name |-> <<>>, read |-> 0]]

\* no Complete call is in progress
NoCall ==
    [pc |-> "idle", attempt |-> 0, waited |-> 0, lastErr |-> "nil",
     requests |-> <<>>]

\* NewMonitor()
NewMonitor == [TotalRequests |-> 0, SuccessfulReqs |-> 0, FailedReqs |-> 0]

LLMIdle ==
    /\ llmCall = NoCall
    /\ llmMetrics = NewMonitor
    /\ llmLog = <<>>

\* NewSkillIndex()
NewSkillIndex ==
    [byName |-> <<>>, byTag |-> <<>>, byCategory |-> <<>>, byKeyword |-> <<>>]

\* NewSkillRegistry(nil), and no Skill object made yet
SkillsIdle ==
    /\ skObjs = <<>>
    /\ skRegistry = <<>>
    /\ skIndex = NewSkillIndex
    /\ skLast = [op |-> "none"]
    /\ skBudget = [ops |-> 0, muts |-> 0]

\* no selector is constructed yet
SelectorIdle ==
    /\ selCfg = [made |-> FALSE]
    /\ selCalls = {}

\* NewSkillFileWatcher over an empty directory and an empty registry
WatcherIdle ==
    /\ wFiles = <<>>
    /\ wSkills = <<>>
    /\ wEvents = <<>>
    /\ wWatcher = [watching |-> FALSE, debounce |-> <<>>]
    /\ wSleepers = {}
    /\ wNow = 0
    /\ wHist = [ops |-> 0, lastEvent |-> <<>>, removal |-> [made |-> FALSE],
                load |-> [made |-> FALSE]]

\* NewRateLimiter(maxRequests, timeWindow), no Complete call made yet
RateIdle ==
    /\ rlRequests = <<>>
    /\ rlNow = 0
    /\ rlCall = [pc |-> "idle", attempt |-> 0, due |-> 0, made |-> 0]
    /\ rlSent = <<>>

LateIdle == SelectorIdle /\ WatcherIdle /\ RateIdle

ServicesIdle ==
    PubIdle /\ IDsIdle /\ MCPIdle /\ LLMIdle /\ SkillsIdle /\ LateIdle

RestIdle == ToolsIdle /\ CronIdle /\ SchedIdle /\ LocksIdle /\ ServicesIdle

\* an agent that is constructed but not wired to the bus
AgentIdle ==
    /\ DiskIdle
    /\ llmManager = FALSE
    /\ chatHistory = EmptyMap
    /\ sessionLog = EmptyMap
    /\ turns = EmptyMap
    /\ userCount = 0
    /\ turnLog = EmptyMap
    /\ conversation = EmptyMap

\* NewInMemoryMessageBus
BusInit ==
    /\ AgentIdle
    /\ RestIdle
    /\ subscribers = [t \in BusTopics |-> {}]
    /\ messageCh = <<>>
    /\ chClosed = FALSE
    /\ ctxDone = FALSE
    /\ wg = 0
    /\ dispPc = "notstarted"
    /\ dispMsg = <<>>
    /\ dispVisited = {}
    /\ dispSnapshot = {}
    /\ goroutines = {}
    /\ closePc = "idle"
    /\ crashed = FALSE
    /\ clock = 1
    /\ nextPtr = 1
    /\ pubLog = <<>>
    /\ deliveries = EmptyBag
    /\ fanned = {}
    /\ lateStarts = 0

\* every operation below is made on a bus that has been started, as main and
\* the tests do right after NewInMemoryMessageBus
Started == dispPc # "notstarted"

\* Start: b.wg.Add(1); go b.processMessages()
BusStart ==
    /\ ~crashed
    /\ dispPc = "notstarted"
    /\ wg' = wg + 1
    /\ dispPc' = "select"
    /\ UNCHANGED <<subscribers, messageCh, chClosed, ctxDone, dispMsg,
                   dispVisited, dispSnapshot, goroutines, closePc, crashed>>
    /\ UNCHANGED busHist
    /\ UNCHANGED <<agentVars, agentHist, fsVars, restVars>>

\* a change to the handler map of topic t makes the messages of t that are
\* queued or being fanned out lose the "subscribers unchanged since Publish" mark
Unsettle(log, t) ==
    [i \in DOMAIN log |->
        IF log[i].topic = t /\ log[i].result = "ok" /\ i \notin fanned
        THEN [log[i] EXCEPT !.stable = FALSE, !.subs = {}] ELSE log[i]]

\* A write to the handler map while processMessages ranges over it without
\* the lock is a data race: the runtime may abort the process.
RacesWithFanOut(t) ==
    dispPc = "fanout" /\ dispMsg # <<>> /\ dispMsg[1].Channel = t

Subscribe(t, h) ==
    /\ ~crashed
    /\ Started
    /\ h \notin subscribers[t]
    /\ subscribers' = [subscribers EXCEPT ![t] = @ \cup {h}]
    /\ pubLog' = Unsettle(pubLog, t)
    /\ \/ crashed' = crashed
       \/ RacesWithFanOut(t) /\ crashed' = TRUE
    /\ UNCHANGED <<messageCh, chClosed, ctxDone, wg, dispPc, dispMsg,
                   dispVisited, dispSnapshot, goroutines, closePc>>
    /\ UNCHANGED <<clock, nextPtr, deliveries, fanned, lateStarts>>
    /\ UNCHANGED <<agentVars, agentHist, fsVars, restVars>>

\* Unsubscribe of a handler that is subscribed (ErrHandlerNotFound otherwise,
\* which changes nothing)
Unsubscribe(t, h) ==
    /\ ~crashed
    /\ Started
    /\ h \in subscribers[t]
    /\ subscribers' = [subscribers EXCEPT ![t] = @ \ {h}]
    /\ pubLog' = Unsettle(pubLog, t)
    /\ \/ crashed' = crashed
       \/ RacesWithFanOut(t) /\ crashed' = TRUE
    /\ UNCHANGED <<messageCh, chClosed, ctxDone, wg, dispPc, dispMsg,
                   dispVisited, dispSnapshot, goroutines, closePc>>
    /\ UNCHANGED <<clock, nextPtr, deliveries, fanned, lateStarts>>
    /\ UNCHANGED <<agentVars, agentHist, fsVars, restVars>>

\* Publish(ctx, channel, msg) of the freshly allocated message msg0, ending
\* with outcome r: the bus state after it, and the record of the call
Enqueue(msg0, t, r) ==
    /\ messageCh' = IF r = "ok" THEN Append(messageCh, Stamp(msg0, t, clock))
                    ELSE messageCh
    /\ crashed' = (r = "panic")
    /\ pubLog' = Append(pubLog,
           [topic |-> t, result |-> r, subs |-> HandlersFor(subscribers, Stamp(msg0, t, clock)),
            msg |-> Stamp(msg0, t, clock),
            stable |-> TRUE, duringClose |-> closePc = "waiting",
            afterClose |-> closePc = "returned"])
    /\ clock' = clock + 1
    /\ nextPtr' = nextPtr + 1

\* Publish by a caller outside the agent.  callerCtx is "background" (never
\* done) or "bus" (the bus context, done after cancel).
Publish(t, callerCtx) ==
    /\ ~crashed
    /\ Started
    /\ nextPtr <= MaxMsgs
    /\ \E r \in PublishOutcomes(messageCh, chClosed, callerCtx = "bus" /\ ctxDone) :
          Enqueue(NewMessage(nextPtr, UserID(nextPtr), "c1", UserText(nextPtr)), t, r)
    /\ UNCHANGED <<subscribers, chClosed, ctxDone, wg, dispPc, dispMsg,
                   dispVisited, dispSnapshot, goroutines, closePc>>
    /\ UNCHANGED <<deliveries, fanned, lateStarts>>
    /\ UNCHANGED <<agentVars, agentHist, fsVars, restVars>>

\* processMessages, case <-b.ctx.Done(): return (deferred wg.Done)
DispatcherExit ==
    /\ ~crashed
    /\ dispPc = "select"
    /\ ctxDone
    /\ dispPc' = "exited"
    /\ wg' = wg - 1
    /\ UNCHANGED <<subscribers, messageCh, chClosed, ctxDone, dispMsg,
                   dispVisited, dispSnapshot, goroutines, closePc, crashed>>
    /\ UNCHANGED busHist
    /\ UNCHANGED <<agentVars, agentHist, fsVars, restVars>>

\* processMessages, case msg := <-b.messageCh, and the lookup under RLock.
\* (The channel is closed only after the dispatcher has exited, so the
\* receive never sees the closed channel.)
DispatcherReceive ==
    /\ ~crashed
    /\ dispPc = "select"
    /\ messageCh # <<>>
    /\ dispMsg' = <<Head(messageCh)>>
    /\ messageCh' = Tail(messageCh)
    /\ dispSnapshot' = HandlersFor(subscribers, Head(messageCh))
    /\ dispVisited' = {}
    /\ dispPc' = "fanout"
    /\ UNCHANGED <<subscribers, chClosed, ctxDone, wg, goroutines, closePc,
                   crashed>>
    /\ UNCHANGED busHist
    /\ UNCHANGED <<agentVars, agentHist, fsVars, restVars>>

\* one round of "for _, handler := range handlers": b.wg.Add(1); go func(h)
Spawn(n) == n + 1

FanOutStep ==
    /\ ~crashed
    /\ dispPc = "fanout"
    /\ \E h \in HandlersFor(subscribers, dispMsg[1]) \ dispVisited :
         /\ dispVisited' = dispVisited \cup {h}
         /\ wg' = Spawn(wg)
         /\ goroutines' = goroutines \cup
                {[h |-> h, msg |-> dispMsg[1], st |-> "spawned"]}
    /\ UNCHANGED <<subscribers, messageCh, chClosed, ctxDone, dispPc, dispMsg,
                   dispSnapshot, closePc, crashed>>
    /\ UNCHANGED busHist
    /\ UNCHANGED <<agentVars, agentHist, fsVars, restVars>>

\* the range ends: every entry that was in the map when it began and is
\* still there has been produced (an entry added meanwhile may be skipped)
FanOutEnd ==
    /\ ~crashed
    /\ dispPc = "fanout"
    /\ (HandlersFor(subscribers, dispMsg[1]) \ dispVisited) \cap dispSnapshot = {}
    /\ dispPc' = "select"
    /\ fanned' = fanned \cup {dispMsg[1].ptr}
    /\ dispMsg' = <<>>
    /\ dispVisited' = {}
    /\ dispSnapshot' = {}
    /\ UNCHANGED <<subscribers, messageCh, chClosed, ctxDone, wg, goroutines,
                   closePc, crashed>>
    /\ UNCHANGED <<clock, nextPtr, pubLog, deliveries, lateStarts>>
    /\ UNCHANGED <<agentVars, agentHist, fsVars, restVars>>

\* the spawned task calls h(b.ctx, msg)
HandlerInvoke(g) ==
    /\ ~crashed
    /\ g \in goroutines
    /\ g.st = "spawned"
    /\ g.h # AgentHandler
    /\ goroutines' = (goroutines \ {g}) \cup {[g EXCEPT !.st = "running"]}
    /\ deliveries' = deliveries (+) SetToBag({[h |-> g.h, msg |-> g.msg]})
    /\ lateStarts' = IF closePc = "returned" THEN lateStarts + 1 ELSE lateStarts
    /\ UNCHANGED <<subscribers, messageCh, chClosed, ctxDone, wg, dispPc,
                   dispMsg, dispVisited, dispSnapshot, closePc, crashed>>
    /\ UNCHANGED <<clock, nextPtr, pubLog, fanned>>
    /\ UNCHANGED <<agentVars, agentHist, fsVars, restVars>>

\* h returns; deferred b.wg.Done()
HandlerReturn(g) ==
    /\ ~crashed
    /\ g \in goroutines
    /\ g.st = "running"
    /\ g.h # AgentHandler
    /\ goroutines' = goroutines \ {g}
    /\ wg' = wg - 1
    /\ UNCHANGED <<subscribers, messageCh, chClosed, ctxDone, dispPc, dispMsg,
                   dispVisited, dispSnapshot, closePc, crashed>>
    /\ UNCHANGED busHist
    /\ UNCHANGED <<agentVars, agentHist, fsVars, restVars>>

\* Close: b.cancel()
CloseCancel ==
    /\ ~crashed
    /\ Started
    /\ closePc = "idle"
    /\ ctxDone' = TRUE
    /\ closePc' = "waiting"
    /\ UNCHANGED <<subscribers, messageCh, chClosed, wg, dispPc, dispMsg,
                   dispVisited, dispSnapshot, goroutines, crashed>>
    /\ UNCHANGED busHist
    /\ UNCHANGED <<agentVars, agentHist, fsVars, restVars>>

\* Close: b.wg.Wait() returns when the counter is zero
WaitNoWait(n) == TRUE

WaitDone(n) == n = 0

CloseWait ==
    /\ ~crashed
    /\ closePc = "waiting"
    /\ WaitDone(wg)
    /\ closePc' = "closing"
    /\ UNCHANGED <<subscribers, messageCh, chClosed, ctxDone, wg, dispPc,
                   dispMsg, dispVisited, dispSnapshot, goroutines, crashed>>
    /\ UNCHANGED busHist
    /\ UNCHANGED <<agentVars, agentHist, fsVars, restVars>>

\* Close: close(b.messageCh); return nil
CloseChannel ==
    /\ ~crashed
    /\ closePc = "closing"
    /\ chClosed' = TRUE
    /\ closePc' = "returned"
    /\ UNCHANGED <<subscribers, messageCh, ctxDone, wg, dispPc, dispMsg,
                   dispVisited, dispSnapshot, goroutines, crashed>>
    /\ UNCHANGED busHist
    /\ UNCHANGED <<agentVars, agentHist, fsVars, restVars>>

\* the dispatcher and the handler tasks
BusRun ==
    \/ DispatcherReceive
    \/ FanOutStep
    \/ FanOutEnd
    \/ \E g \in goroutines : HandlerInvoke(g)
    \/ \E g \in goroutines : HandlerReturn(g)

\* publish / subscribe / unsubscribe on a started bus that is not closed
BusNext ==
    \/ BusStart
    \/ \E h \in Handlers : Subscribe(TopicOf(h), h)
    \/ \E h \in Handlers : Unsubscribe(TopicOf(h), h)
    \/ \E t \in BusTopics : Publish(t, "background")
    \/ BusRun

SpecBus == BusInit /\ [][BusNext]_vars

\* the shutdown of a bus in use: Close against the dispatcher, the handler
\* tasks, Subscribe and Publish
BusCloseNext ==
    \/ BusStart
    \/ \E h \in Handlers : Subscribe(TopicOf(h), h)
    \/ \E t \in BusTopics, c \in {"background", "bus"} : Publish(t, c)
    \/ BusRun
    \/ DispatcherExit
    \/ CloseCancel
    \/ CloseWait
    \/ CloseChannel

SpecBusClose == BusInit /\ [][BusCloseNext]_vars

(***************************************************************************)
(* The agent (src/internal/agent/agent.go), the tool executor and the      *)
(* tools it runs.                                                          *)
(***************************************************************************)
AgentTopics == {ChannelCLI, ChannelTelegram, ChannelWebSocket}
ChatIDs == {"c1", "c2"}

RoleUser == "user"
RoleAssistant == "assistant"

LLMMessage(role, content) == [Role |-> role, Content |-> content]

\* a tool call as the LLM lists it: a name and an input that the named tool
\* accepts ("ok") or rejects ("bad")
Call(name, input) == [Name |-> name, Input |-> input]

\* the registry holds echo; "nope" is a name the LLM made up
Registry == {"echo"}
Calls == {Call("echo", "ok"), Call("echo", "bad"), Call("nope", "ok")}
CallLists == UNION {[1..k -> Calls] : k \in 1..MaxCalls}

\* LLM response bodies
LLMPlain == Text("plain", "", <<>>, <<>>, 0)
LLMFinal == Text("json", "done", <<>>, <<>>, 0)
LLMEmpty == Text("json", "", <<>>, <<>>, 0)
LLMFinalAndCalls == Text("json", "done", <<Call("echo", "ok")>>, <<>>, 0)
LLMCalls(cs) == Text("json", "", cs, <<>>, 0)
LLMResponses ==
    {LLMPlain, LLMFinal, LLMEmpty, LLMFinalAndCalls}
    \cup {LLMCalls(cs) : cs \in CallLists}

NoticeText == Text("notice", "", <<>>, <<>>, 0)
Observation(results) == Text("obs", "", <<>>, results, 0)

\* parseResponse: (toolCalls, isFinal)
parseResponse(content) ==
    IF content.kind # "json" THEN [toolCalls |-> <<>>, isFinal |-> TRUE]
    ELSE IF content.final # "" THEN [toolCalls |-> <<>>, isFinal |-> TRUE]
    ELSE IF Len(content.calls) > 0
         THEN [toolCalls |-> content.calls, isFinal |-> FALSE]
    ELSE [toolCalls |-> <<>>, isFinal |-> TRUE]

\* the echo tool: (result, error)
EchoExecute(input) ==
    IF input = "ok" THEN [result |-> "Echo", err |-> ""]
    ELSE [result |-> "", err |-> "message parameter must be a string"]

\* tools.ToolCall as serialised into the observation
ToolCall(name, input, result, error) ==
    [Name |-> name, Input |-> input, Result |-> result, Error |-> error]

\* ToolExecutor.Execute: (*ToolCall, error); isNil marks the nil pointer
ExecuteReturnsToolError(call) ==
    IF call.Name \notin Registry
    THEN [isNil |-> TRUE, call |-> ToolCall("", "", "", ""),
          err |-> "tool not found"]
    ELSE LET r == EchoExecute(call.Input)
         IN [isNil |-> r.err # "",
             call |-> ToolCall(call.Name, call.Input, r.result, ""),
             err |-> r.err]

Execute(call) ==
    IF call.Name \notin Registry
    THEN [isNil |-> TRUE, call |-> ToolCall("", "", "", ""),
          err |-> "tool not found"]
    ELSE LET r == EchoExecute(call.Input)
         IN [isNil |-> FALSE,
             call |-> ToolCall(call.Name, call.Input, r.result, r.err),
             err |-> ""]

\* runReActLoop, "for _, call := range toolCalls": the records gathered, the
\* calls handed to Execute, and whether result.Error = err.Error() was run
\* on a nil result
RECURSIVE RunToolCalls(_, _, _)
RunToolCalls(calls, i, acc) ==
    IF i > Len(calls) THEN acc
    ELSE LET e == Execute(calls[i])
             tried == Append(acc.attempted, calls[i])
         IN IF e.err # "" /\ e.isNil
            THEN [acc EXCEPT !.attempted = tried, !.panicked = TRUE]
            ELSE RunToolCalls(calls, i + 1,
                     [acc EXCEPT !.attempted = tried,
                                 !.results = Append(@,
                                     IF e.err # ""
                                     THEN [e.call EXCEPT !.Error = e.err]
                                     ELSE e.call)])

NoToolsRun == [results |-> <<>>, attempted |-> <<>>, panicked |-> FALSE]

\* storage.Message written by SaveMessage (Timestamp is always 0) and the
\* llm.Message getChatHistory makes of it
StoredMessage(m) == [Role |-> m.Role, Content |-> m.Content, Timestamp |-> 0]
LoadedMessage(sm) == LLMMessage(sm.Role, sm.Content)

MapSeq(Op(_), seq) == [i \in 1..Len(seq) |-> Op(seq[i])]

\* GetMessages(chatID, limit): the last limit lines of the file
GetMessages(log, chat, limit) ==
    LET all == IF chat \in DOMAIN log THEN log[chat] ELSE <<>>
    IN IF limit > 0 /\ Len(all) > limit
       THEN SubSeq(all, Len(all) - limit + 1, Len(all)) ELSE all

\* getChatHistory: the cached list, or the one hydrated from the session log
getChatHistory(chat) ==
    IF chat \in DOMAIN chatHistory THEN chatHistory[chat]
    ELSE MapSeq(LoadedMessage, GetMessages(sessionLog, chat, HistoryLimit))

\* setChatHistory: the session file after SaveMessage of every message
SaveAll(log, chat, messages) ==
    (chat :> ((IF chat \in DOMAIN log THEN log[chat] ELSE <<>>)
              \o MapSeq(StoredMessage, messages))) @@ log

Drop(map, key) == [k \in DOMAIN map \ {key} |-> map[k]]

NumTurns == Cardinality(DOMAIN turns) + Cardinality(DOMAIN turnLog)

\* the session file of a chat left on disk by an earlier run
PriorLog ==
    <<StoredMessage(LLMMessage(RoleUser, UserText(0))),
      StoredMessage(LLMMessage(RoleAssistant, LLMFinal))>>

\* main after initializeCommunication and initializeAgent: the bus runs, the
\* transports' handlers and the agent are subscribed (Agent.Start)
AgentInit ==
    /\ subscribers = [t \in AgentTopics |->
                        IF t = ChannelCLI THEN {AgentHandler}
                        ELSE {AgentHandler, TransportHandler}]
    /\ messageCh = <<>>
    /\ chClosed = FALSE
    /\ ctxDone = FALSE
    /\ wg = 1
    /\ dispPc = "select"
    /\ dispMsg = <<>>
    /\ dispVisited = {}
    /\ dispSnapshot = {}
    /\ goroutines = {}
    /\ closePc = "idle"
    /\ crashed = FALSE
    /\ clock = 1
    /\ nextPtr = 1
    /\ pubLog = <<>>
    /\ deliveries = EmptyBag
    /\ fanned = {}
    /\ lateStarts = 0
    /\ DiskIdle
    /\ RestIdle
    /\ llmManager \in BOOLEAN
    /\ chatHistory = EmptyMap
    /\ sessionLog \in {EmptyMap, "c1" :> PriorLog}
    /\ turns = EmptyMap
    /\ userCount = 0
    /\ turnLog = EmptyMap
    /\ conversation = [c \in DOMAIN sessionLog |->
                          MapSeq(LoadedMessage, sessionLog[c])]

\* a transport publishes a user's message (b.messageBus.Publish)
UserSend(t, chat) ==
    /\ ~crashed
    /\ userCount < MaxUserMsgs
    /\ userCount' = userCount + 1
    /\ \E r \in PublishOutcomes(messageCh, chClosed, FALSE) :
          Enqueue(NewMessage(nextPtr, UserID(nextPtr), chat, UserText(nextPtr)), t, r)
    /\ UNCHANGED <<subscribers, chClosed, ctxDone, wg, dispPc, dispMsg,
                   dispVisited, dispSnapshot, goroutines, closePc>>
    /\ UNCHANGED <<deliveries, fanned, lateStarts>>
    /\ UNCHANGED <<agentVars, turnLog, conversation, fsVars, restVars>>

\* what is kept of a HandleMessage call that has ended
TurnRecord(msg, outcome, responses, batches, reply, cached, working, published) ==
    [msg |-> msg, outcome |-> outcome, responses |-> responses,
     batches |-> batches, reply |-> reply, cached |-> cached,
     working |-> working, published |-> published]

\* the handler task returns (or dies): deferred b.wg.Done()
EndTurn(g, record) ==
    /\ goroutines' = goroutines \ {g}
    /\ wg' = wg - 1
    /\ turns' = Drop(turns, g.msg.ptr)
    /\ turnLog' = (g.msg.ptr :> record) @@ turnLog

Appended(map, key, items) ==
    (key :> ((IF key \in DOMAIN map THEN map[key] ELSE <<>>) \o items)) @@ map

\* HandleMessage without an LLM: publish the fixed notice and return
AgentNotice(g) ==
    /\ ~crashed
    /\ g \in goroutines
    /\ g.h = AgentHandler
    /\ g.st = "spawned"
    /\ ~llmManager
    /\ NumTurns < MaxTurns
    /\ \E r \in PublishOutcomes(messageCh, chClosed, ctxDone) :
          /\ Enqueue(NewMessage(nextPtr, AgentID(g.msg.ID), g.msg.ChatID,
                                NoticeText), g.msg.Channel, r)
          /\ EndTurn(g, TurnRecord(g.msg, "notice", <<>>, <<>>, NoticeText,
                                   <<>>, <<>>, r))
    /\ deliveries' = deliveries (+) SetToBag({[h |-> g.h, msg |-> g.msg]})
    /\ UNCHANGED <<subscribers, chClosed, ctxDone, dispPc, dispMsg,
                   dispVisited, dispSnapshot, closePc>>
    /\ UNCHANGED <<fanned, lateStarts>>
    /\ UNCHANGED <<llmManager, chatHistory, sessionLog, userCount, conversation,
                   fsVars, restVars>>

\* HandleMessage up to the call of runReActLoop: load the history, append
\* the user message; the loop gets a copy of the slice header
AgentBeginTurn(g) ==
    /\ ~crashed
    /\ g \in goroutines
    /\ g.h = AgentHandler
    /\ g.st = "spawned"
    /\ llmManager
    /\ NumTurns < MaxTurns
    /\ LET messages == Append(getChatHistory(g.msg.ChatID),
                              LLMMessage(RoleUser, g.msg.Content))
       IN turns' = (g.msg.ptr :>
                      [messages |-> messages, loop |-> messages, iteration |-> 0,
                       responses |-> <<>>, batches |-> <<>>]) @@ turns
    /\ chatHistory' = (g.msg.ChatID :> getChatHistory(g.msg.ChatID)) @@ chatHistory
    /\ goroutines' = (goroutines \ {g}) \cup {[g EXCEPT !.st = "running"]}
    /\ deliveries' = deliveries (+) SetToBag({[h |-> g.h, msg |-> g.msg]})
    /\ UNCHANGED <<subscribers, messageCh, chClosed, ctxDone, wg, dispPc,
                   dispMsg, dispVisited, dispSnapshot, closePc, crashed>>
    /\ UNCHANGED <<clock, nextPtr, pubLog, fanned, lateStarts>>
    /\ UNCHANGED <<llmManager, sessionLog, agentHist, fsVars, restVars>>

InLoop(g) ==
    /\ ~crashed
    /\ g \in goroutines
    /\ g.h = AgentHandler
    /\ g.st = "running"
    /\ turns[g.msg.ptr].iteration < MaxIterations

\* an iteration whose llmManager.Complete fails: runReActLoop and then
\* HandleMessage return the error
ReActLLMError(g) ==
    /\ InLoop(g)
    /\ LET t == turns[g.msg.ptr]
       IN EndTurn(g, TurnRecord(g.msg, "llm_error", t.responses, t.batches,
                                NoticeText, <<>>, t.loop, "none"))
    /\ UNCHANGED <<subscribers, messageCh, chClosed, ctxDone, dispPc, dispMsg,
                   dispVisited, dispSnapshot, closePc, crashed>>
    /\ UNCHANGED busHist
    /\ UNCHANGED <<llmManager, chatHistory, sessionLog, userCount, conversation,
                   fsVars, restVars>>

\* an iteration whose response ends the loop, and the rest of HandleMessage:
\* append the reply to the caller's list, setChatHistory, Publish
ReActFinal(g) ==
    /\ InLoop(g)
    /\ \E resp \in LLMResponses :
         LET t == turns[g.msg.ptr]
             parsed == parseResponse(resp)
             messages == Append(t.messages, LLMMessage(RoleAssistant, resp))
             working == Append(t.loop, LLMMessage(RoleAssistant, resp))
         IN /\ parsed.isFinal \/ Len(parsed.toolCalls) = 0
            /\ chatHistory' = (g.msg.ChatID :> messages) @@ chatHistory
            /\ sessionLog' = SaveAll(sessionLog, g.msg.ChatID, messages)
            /\ conversation' = Appended(conversation, g.msg.ChatID,
                                   <<LLMMessage(RoleUser, g.msg.Content),
                                     LLMMessage(RoleAssistant, resp)>>)
            /\ \E r \in PublishOutcomes(messageCh, chClosed, ctxDone) :
                 /\ Enqueue(NewMessage(nextPtr, AgentID(g.msg.ID), g.msg.ChatID,
                                       resp), g.msg.Channel, r)
                 /\ EndTurn(g, TurnRecord(g.msg, "ok", Append(t.responses, resp),
                                          t.batches, resp, messages, working, r))
    /\ UNCHANGED <<subscribers, chClosed, ctxDone, dispPc, dispMsg,
                   dispVisited, dispSnapshot, closePc>>
    /\ UNCHANGED <<deliveries, fanned, lateStarts>>
    /\ UNCHANGED <<llmManager, userCount, fsVars, restVars>>

\* an iteration whose response lists tool calls: run them, then append the
\* raw response and the observation to the loop's list
ReActTools(g) ==
    /\ InLoop(g)
    /\ \E resp \in LLMResponses :
         LET t == turns[g.msg.ptr]
             parsed == parseResponse(resp)
             run == RunToolCalls(parsed.toolCalls, 1, NoToolsRun)
             batch == [calls |-> parsed.toolCalls, attempted |-> run.attempted,
                       results |-> run.results]
         IN /\ ~parsed.isFinal
            /\ Len(parsed.toolCalls) > 0
            /\ IF run.panicked
               THEN /\ crashed' = TRUE
                    /\ EndTurn(g, TurnRecord(g.msg, "panic",
                                   Append(t.responses, resp),
                                   Append(t.batches, batch), NoticeText,
                                   <<>>, t.loop, "none"))
               ELSE /\ crashed' = crashed
                    /\ turns' = [turns EXCEPT ![g.msg.ptr] =
                          [@ EXCEPT !.loop = @ \o
                                <<LLMMessage(RoleAssistant, resp),
                                  LLMMessage(RoleUser, Observation(run.results))>>,
                             !.iteration = @ + 1,
                             !.responses = Append(@, resp),
                             !.batches = Append(@, batch)]]
                    /\ UNCHANGED <<goroutines, wg, turnLog>>
    /\ UNCHANGED <<subscribers, messageCh, chClosed, ctxDone, dispPc, dispMsg,
                   dispVisited, dispSnapshot, closePc>>
    /\ UNCHANGED busHist
    /\ UNCHANGED <<llmManager, chatHistory, sessionLog, userCount, conversation,
                   fsVars, restVars>>

\* the for loop ends: "max iterations (%d) reached without final answer"
ReActExhausted(g) ==
    /\ ~crashed
    /\ g \in goroutines
    /\ g.h = AgentHandler
    /\ g.st = "running"
    /\ turns[g.msg.ptr].iteration >= MaxIterations
    /\ LET t == turns[g.msg.ptr]
       IN EndTurn(g, TurnRecord(g.msg, "max_iter", t.responses, t.batches,
                                NoticeText, <<>>, t.loop, "none"))
    /\ UNCHANGED <<subscribers, messageCh, chClosed, ctxDone, dispPc, dispMsg,
                   dispVisited, dispSnapshot, closePc, crashed>>
    /\ UNCHANGED busHist
    /\ UNCHANGED <<llmManager, chatHistory, sessionLog, userCount, conversation,
                   fsVars, restVars>>

AgentNext ==
    \/ \E t \in AgentTopics, c \in ChatIDs : UserSend(t, c)
    \/ BusRun
    \/ \E g \in goroutines : AgentNotice(g)
    \/ \E g \in goroutines : AgentBeginTurn(g)
    \/ \E g \in goroutines : ReActLLMError(g)
    \/ \E g \in goroutines : ReActFinal(g)
    \/ \E g \in goroutines : ReActTools(g)
    \/ \E g \in goroutines : ReActExhausted(g)

SpecAgent == AgentInit /\ [][AgentNext]_vars

\* the agent runs file tool calls of an LLM response against the disk
FileToolsNext ==
    \/ \E path \in PathArgs : ReadFileTool(path)
    \/ \E path \in PathArgs, content \in Contents : WriteFileTool(path, content)
    \/ \E path \in PathArgs : ListDirTool(path)
    \/ \E path \in PathArgs : DeleteFileTool(path)
    \/ \E path \in PathArgs : FileExistsTool(path)

SpecFileTools == BusInit /\ [][FileToolsNext]_vars

(***************************************************************************)
(* ToolExecutor called directly, as the tools package's tests do.          *)
(***************************************************************************)
\* ExecuteMultiple: "for _, call := range calls": a non-nil error of Execute
\* ends the loop with (nil, err)
RECURSIVE ExecuteMultipleFrom(_, _, _)
ExecuteMultipleFrom(calls, i, acc) ==
    IF i > Len(calls) THEN acc
    ELSE LET e == Execute(calls[i])
             tried == Append(acc.attempted, calls[i])
         IN IF e.err # ""
            THEN [results |-> <<>>, isNil |-> TRUE, err |-> e.err,
                  attempted |-> tried]
            ELSE ExecuteMultipleFrom(calls, i + 1,
                     [acc EXCEPT !.attempted = tried,
                                 !.results = Append(@, e.call)])

ExecuteMultiple(calls) ==
    ExecuteMultipleFrom(calls, 1,
        [results |-> <<>>, isNil |-> FALSE, err |-> "", attempted |-> <<>>])

\* a caller runs executor.Execute(ctx, name, params)
ExecuteCall(call) ==
    /\ Len(toolRuns) < MaxToolRuns
    /\ toolRuns' = Append(toolRuns,
           [op |-> "Execute", calls |-> <<call>>, one |-> Execute(call),
            many |-> ExecuteMultiple(<<>>)])
    /\ UNCHANGED <<busVars, busHist, agentVars, agentHist, fsVars, cronVars,
                   schedVars, lockVars, svcVars>>

\* a caller runs executor.ExecuteMultiple(ctx, calls)
ExecuteMultipleCall(calls) ==
    /\ Len(toolRuns) < MaxToolRuns
    /\ toolRuns' = Append(toolRuns,
           [op |-> "ExecuteMultiple", calls |-> calls,
            one |-> Execute(calls[1]), many |-> ExecuteMultiple(calls)])
    /\ UNCHANGED <<busVars, busHist, agentVars, agentHist, fsVars, cronVars,
                   schedVars, lockVars, svcVars>>

ToolsNext ==
    \/ \E call \in Calls : ExecuteCall(call)
    \/ \E calls \in CallLists : ExecuteMultipleCall(calls)

SpecTools == BusInit /\ [][ToolsNext]_vars

(***************************************************************************)
(* CronParser and CronSchedule (src/internal/scheduler/cron_parser.go).    *)
(* A field is the sequence of its characters.                              *)
(***************************************************************************)
Digits == <<"0", "1", "3", "7">>
DigitValue(c) == CASE c = "0" -> 0 [] c = "1" -> 1 [] c = "3" -> 3 [] c = "7" -> 7
IsDigit(c) == \E i \in DOMAIN Digits : Digits[i] = c
FieldChars == {"*", ",", "-", "/"} \cup {Digits[i] : i \in DOMAIN Digits}
FieldStrings == UNION {[1..k -> FieldChars] : k \in 1..MaxFieldLen}

\* strings.Contains(s, sep) and strings.Split(s, sep) for a one-character sep
Contains(s, sep) == \E i \in DOMAIN s : s[i] = sep

RECURSIVE Split(_, _)
Split(s, sep) ==
    IF ~Contains(s, sep) THEN <<s>>
    ELSE LET k == CHOOSE i \in DOMAIN s :
                     s[i] = sep /\ \A j \in 1..(i - 1) : s[j] # sep
         IN <<SubSeq(s, 1, k - 1)>> \o Split(SubSeq(s, k + 1, Len(s)), sep)

RECURSIVE DecimalValue(_)
DecimalValue(ds) ==
    IF ds = <<>> THEN 0
    ELSE 10 * DecimalValue(SubSeq(ds, 1, Len(ds) - 1)) + DigitValue(ds[Len(ds)])

\* parseInt: fmt.Sscanf(s, "%d", &value) reads an optional sign and the
\* digits that follow, and leaves what comes after them unread
parseInt(s) ==
    LET neg == Len(s) > 0 /\ s[1] = "-"
        body == IF neg THEN Tail(s) ELSE s
        n == Cardinality({i \in DOMAIN body : \A j \in 1..i : IsDigit(body[j])})
        v == DecimalValue(SubSeq(body, 1, n))
    IN IF n = 0 THEN [ok |-> FALSE, value |-> 0]
       ELSE [ok |-> TRUE, value |-> IF neg THEN 0 - v ELSE v]

\* generateRange(min, max)
generateRange(min, max) == [i \in 1..(max - min + 1) |-> min + i - 1]

RECURSIVE SortedSeq(_)
SortedSeq(set) ==
    IF set = {} THEN <<>>
    ELSE LET lo == CHOOSE x \in set : \A y \in set : x <= y
         IN <<lo>> \o SortedSeq(set \ {lo})

\* uniqueSorted: first occurrences kept, then sorted ascending
uniqueSorted(values) == SortedSeq({values[i] : i \in DOMAIN values})

\* what parsing ends in: "ok" with the values, "error", "panic" (an index
\* out of range), or "diverges" (a loop that appends for ever)
Parsed(status, values) == [status |-> status, values |-> values]

\* parseRange(field, min, max)
parseRange(field, min, max) ==
    LET parts == Split(field, "-")
    IN IF Len(parts) # 2 THEN Parsed("error", <<>>)
       ELSE LET start == parseInt(parts[1])
                end == parseInt(parts[2])
            IN IF ~start.ok \/ ~end.ok THEN Parsed("error", <<>>)
               ELSE IF start.value < min \/ start.value > max
                       \/ end.value < min \/ end.value > max
                       \/ start.value > end.value
               THEN Parsed("error", <<>>)
               ELSE Parsed("ok", generateRange(start.value, end.value))

\* "for i := 0; i < len(base); i += step { append(base[i]) }"
EveryNth(base, step) ==
    IF step = 0 THEN Parsed("diverges", <<>>)
    ELSE IF step < 0 THEN Parsed("panic", <<>>)
    ELSE Parsed("ok", [k \in 1..((Len(base) + step - 1) \div step) |->
                          base[(k - 1) * step + 1]])

\* "for v := start; v <= max; v += step { append(v) }"
FromStart(start, max, step) ==
    IF start > max THEN Parsed("ok", <<>>)
    ELSE IF step <= 0 THEN Parsed("diverges", <<>>)
    ELSE Parsed("ok", [k \in 1..((max - start) \div step + 1) |->
                          start + (k - 1) * step])

\* one round of "for _, part := range parts" in parseField
parsePart(part, min, max) ==
    IF Contains(part, "/")
    THEN LET stepParts == Split(part, "/")
         IN IF Len(stepParts) # 2 THEN Parsed("error", <<>>)
            ELSE LET base == stepParts[1]
                     step == parseInt(stepParts[2])
                 IN IF ~step.ok THEN Parsed("error", <<>>)
                    ELSE IF base = <<"*">>
                    THEN EveryNth(generateRange(min, max), step.value)
                    ELSE IF Contains(base, "-")
                    THEN LET r == parseRange(base, min, max)
                         IN IF r.status # "ok" THEN r
                            ELSE EveryNth(r.values, step.value)
                    ELSE LET start == parseInt(base)
                         IN IF ~start.ok THEN Parsed("error", <<>>)
                            ELSE FromStart(start.value, max, step.value)
    ELSE IF Contains(part, "-") THEN parseRange(part, min, max)
    ELSE LET value == parseInt(part)
         IN IF ~value.ok THEN Parsed("error", <<>>)
            ELSE IF value.value < min \/ value.value > max
            THEN Parsed("error", <<>>)
            ELSE Parsed("ok", <<value.value>>)

RECURSIVE parseParts(_, _, _, _, _)
parseParts(parts, i, min, max, values) ==
    IF i > Len(parts) THEN Parsed("ok", uniqueSorted(values))
    ELSE LET r == parsePart(parts[i], min, max)
         IN IF r.status # "ok" THEN Parsed(r.status, <<>>)
            ELSE parseParts(parts, i + 1, min, max, values \o r.values)

\* parseField(field, min, max)
parseField(field, min, max) ==
    IF field = <<"*">> THEN Parsed("ok", generateRange(min, max))
    ELSE parseParts(Split(field, ","), 1, min, max, <<>>)

\* the fields of an expression and the range Parse gives each
FieldNames == <<"second", "minute", "hour", "day", "month", "weekday">>
FieldMin == [second |-> 0, minute |-> 0, hour |-> 0, day |-> 1, month |-> 1,
             weekday |-> 0]
FieldMax == [second |-> 59, minute |-> 59, hour |-> 23, day |-> 31,
             month |-> 12, weekday |-> 6]

RECURSIVE parseFields(_, _, _, _)
parseFields(parts, names, i, schedule) ==
    IF i > Len(parts) THEN [status |-> "ok", schedule |-> schedule]
    ELSE LET r == parseField(parts[i], FieldMin[names[i]], FieldMax[names[i]])
         IN IF r.status # "ok" THEN [status |-> r.status, schedule |-> schedule]
            ELSE parseFields(parts, names, i + 1,
                             [schedule EXCEPT ![names[i]] = r.values])

NoSchedule == [f \in {FieldNames[i] : i \in DOMAIN FieldNames} |-> <<>>]

\* Parse(expr), expr given as strings.Fields(expr): six fields, or five with
\* second = [0]
Parse(parts) ==
    IF Len(parts) = 6 THEN parseFields(parts, FieldNames, 1, NoSchedule)
    ELSE IF Len(parts) = 5
    THEN parseFields(parts, Tail(FieldNames), 1,
                     [NoSchedule EXCEPT !.second = <<0>>])
    ELSE [status |-> "error", schedule |-> NoSchedule]

\* a caller runs parseField on one field of an expression
ParseFieldCall(field, name) ==
    /\ Len(cronParsed) < MaxParses
    /\ cronParsed' = Append(cronParsed,
           [field |-> field, min |-> FieldMin[name], max |-> FieldMax[name],
            out |-> parseField(field, FieldMin[name], FieldMax[name])])
    /\ UNCHANGED <<busVars, busHist, agentVars, agentHist, fsVars, toolVars,
                   schedVars, lockVars, svcVars, cronSearch>>

CronParseNext ==
    \E field \in FieldStrings, i \in DOMAIN FieldNames :
        ParseFieldCall(field, FieldNames[i])

SpecCronParse == BusInit /\ [][CronParseNext]_vars

\* An instant is a count of half seconds since 2024-01-01 00:00:00, a
\* Monday, and lies in January 2024.
Second == 2
Truncate(t) == t - (t % Second)
SecondOf(t) == (t \div Second) % 60
MinuteOf(t) == (t \div (60 * Second)) % 60
HourOf(t) == (t \div (3600 * Second)) % 24
DayOf(t) == 1 + (t \div (86400 * Second))
MonthOf(t) == 1
WeekdayOf(t) == (1 + (t \div (86400 * Second))) % 7

\* matchesField(value, field)
matchesField(value, field) == \E i \in DOMAIN field : field[i] = value

\* isAllValues(values, min, max)
isAllValues(values, min, max) ==
    /\ Len(values) = max - min + 1
    /\ \A v \in min..max : matchesField(v, values)

\* CronSchedule.matches(t)
matches(schedule, t) ==
    IF \/ ~matchesField(SecondOf(t), schedule.second)
       \/ ~matchesField(MinuteOf(t), schedule.minute)
       \/ ~matchesField(HourOf(t), schedule.hour)
       \/ ~matchesField(MonthOf(t), schedule.month)
    THEN FALSE
    ELSE LET dayMatches == matchesField(DayOf(t), schedule.day)
             weekdayMatches == matchesField(WeekdayOf(t), schedule.weekday)
             daySpecified == /\ Len(schedule.day) > 0
                             /\ ~isAllValues(schedule.day, 1, 31)
             weekdaySpecified == /\ Len(schedule.weekday) > 0
                                 /\ ~isAllValues(schedule.weekday, 0, 6)
         IN IF daySpecified /\ weekdaySpecified
            THEN dayMatches /\ weekdayMatches
            ELSE IF daySpecified THEN dayMatches
            ELSE IF weekdaySpecified THEN weekdayMatches
            ELSE TRUE

\* the expressions the searches are run on: a second field, every other
\* field "*"; and the five-field "* * * * *"
Star == <<"*">>
SecondFields ==
    {Star, <<"7">>, <<"1", ",", "3">>, <<"*", "/", "7">>,
     <<"7", "0", "/", "1">>, <<"7", "7">>}
CronExprs ==
    {<<f, Star, Star, Star, Star, Star>> : f \in SecondFields}
    \cup {<<Star, Star, Star, Star, Star>>}
StartInstants == {0, 1, 7 * Second, 7 * Second + 1, 59 * Second + 1}

\* Next(t), first line: t = t.Add(time.Second).Truncate(time.Second)
NextStart(from) == Truncate(from + Second)

\* schedule, err := parser.Parse(expr); schedule.Next(from)
NextBegin(parts, from) ==
    /\ cronSearch.pc = "idle"
    /\ Parse(parts).status = "ok"
    /\ cronSearch' = [pc |-> "scan", schedule |-> Parse(parts).schedule,
                      from |-> from, t |-> NextStart(from), scanned |-> 0,
                      results |-> <<>>]
    /\ UNCHANGED <<busVars, busHist, agentVars, agentHist, fsVars, toolVars,
                   schedVars, lockVars, svcVars, cronParsed>>

\* the instant examined does not match: nextTime moves on one second
NextScan ==
    /\ cronSearch.pc = "scan"
    /\ ~matches(cronSearch.schedule, cronSearch.t)
    /\ cronSearch.scanned < SecondsPerMinute
    /\ cronSearch' = [cronSearch EXCEPT !.t = @ + Second, !.scanned = @ + 1]
    /\ UNCHANGED <<busVars, busHist, agentVars, agentHist, fsVars, toolVars,
                   schedVars, lockVars, svcVars, cronParsed>>

\* the instant examined matches: Next returns it
NextReturn ==
    /\ cronSearch.pc = "scan"
    /\ matches(cronSearch.schedule, cronSearch.t)
    /\ cronSearch' = [cronSearch EXCEPT
                         !.pc = "done",
                         !.results = Append(@, [from |-> cronSearch.from,
                                                at |-> cronSearch.t])]
    /\ UNCHANGED <<busVars, busHist, agentVars, agentHist, fsVars, toolVars,
                   schedVars, lockVars, svcVars, cronParsed>>

\* the caller calls Next again on the instant returned
NextAgain ==
    /\ cronSearch.pc = "done"
    /\ Len(cronSearch.results) < MaxNexts
    /\ LET from == cronSearch.results[Len(cronSearch.results)].at
       IN cronSearch' = [cronSearch EXCEPT !.pc = "scan", !.from = from,
                                           !.t = NextStart(from),
                                           !.scanned = 0]
    /\ UNCHANGED <<busVars, busHist, agentVars, agentHist, fsVars, toolVars,
                   schedVars, lockVars, svcVars, cronParsed>>

CronNextNext ==
    \/ \E parts \in CronExprs, from \in StartInstants : NextBegin(parts, from)
    \/ NextScan
    \/ NextReturn
    \/ NextAgain

SpecCronNext == BusInit /\ [][CronNextNext]_vars

(***************************************************************************)
(* Scheduler (src/internal/scheduler/scheduler.go).  A *Task is named by   *)
(* its ID; a run of code that holds s.mu is one step.                      *)
(***************************************************************************)
StatusPending == "pending"
StatusRunning == "running"
StatusCompleted == "completed"
StatusFailed == "failed"

TaskIDs == {"t1"}

\* the TaskFuncs the callers register: one returns nil, one returns an
\* error; "nil" is the nil func
TaskHandlers == {"increment", "failing"}
NilHandler == "nil"
HandlerError(h) == IF h = "failing" THEN "handler failed" ELSE ""

\* the cron expressions the callers give their tasks: every second, at
\* second 1 of every minute, and a text that Parse rejects
EverySecond == <<Star, Star, Star, Star, Star, Star>>
AtSecondOne == <<<<"1">>, Star, Star, Star, Star, Star>>
NotAnExpr == <<Star>>
SchedExprs == {EverySecond, AtSecondOne, NotAnExpr}

\* CronSchedule.Next(t) as a function: the first matching instant at or
\* after NextStart(t); none within a minute means that the loop goes on
\* for ever when only the second field restricts the schedule
Next(schedule, t) ==
    LET start == NextStart(t)
        hits == {k \in 0..SecondsPerMinute :
                     matches(schedule, start + k * Second)}
    IN IF hits = {} THEN [status |-> "diverges", at |-> ZeroTime]
       ELSE [status |-> "ok",
             at |-> start + Second * (CHOOSE k \in hits :
                                          \A j \in hits : k <= j)]

\* a calculateNextRun that answers the second the reference instant lies in
calculateNextRunSameSecond(cronExpr, from) ==
    [status |-> "ok", at |-> Truncate(from)]

\* calculateNextRun(cronExpr, from): Parse, then Next on the schedule;
\* worked out once for the expressions and the instants of the runs
NextRuns ==
    [cronExpr \in SchedExprs, from \in 0..MaxNow |->
        LET NextOf(parsed) ==
                IF parsed.status # "ok"
                THEN [status |-> "error", at |-> ZeroTime]
                ELSE Next(parsed.schedule, from)
        IN NextOf(Parse(cronExpr))]

calculateNextRun(cronExpr, from) == NextRuns[cronExpr, from]

\* &Task{ID, Name, Description, CronExpr, Handler, Enabled}
NewTask(id, name, description, cronExpr, handler, enabled) ==
    [ID |-> id, Name |-> name, Description |-> description,
     CronExpr |-> cronExpr, Handler |-> handler, Status |-> "",
     LastRun |-> ZeroTime, NextRun |-> ZeroTime, RunCount |-> 0,
     ErrorCount |-> 0, Enabled |-> enabled]

\* Scheduler.AddTask(task) on the task map `map` at instant `at`: the error
\* returned and the map afterwards
AddTask(map, task, at) ==
    IF task.ID = "" THEN [err |-> "task ID cannot be empty", tasks |-> map]
    ELSE IF task.Name = ""
    THEN [err |-> "task name cannot be empty", tasks |-> map]
    ELSE IF task.CronExpr = <<>>
    THEN [err |-> "task cron expression cannot be empty", tasks |-> map]
    ELSE IF task.Handler = NilHandler
    THEN [err |-> "task handler cannot be nil", tasks |-> map]
    ELSE IF task.ID \in DOMAIN map
    THEN [err |-> "task already exists", tasks |-> map]
    ELSE LET Added(nextRun) ==
                 IF nextRun.status # "ok"
                 THEN [err |-> "failed to calculate next run", tasks |-> map]
                 ELSE [err |-> "",
                       tasks |-> [id \in DOMAIN map \cup {task.ID} |->
                           IF id = task.ID
                           THEN [task EXCEPT !.Status = StatusPending,
                                             !.Enabled = TRUE,
                                             !.NextRun = nextRun.at]
                           ELSE map[id]]]
         IN Added(calculateNextRun(task.CronExpr, at))

\* what the scheduler's steps leave alone
nonSched == <<busVars, busHist, agentVars, agentHist, fsVars, toolVars,
              cronVars, lockVars, svcVars>>

\* the process is alive: no goroutine has panicked and main has not returned
Alive == ~scheduler.panicked /\ manager.shutdown # "exited"

\* a caller adds a task to the scheduler
SchedAddTask(id, cronExpr, handler) ==
    /\ Alive
    /\ tasks' = AddTask(tasks, NewTask(id, id, "", cronExpr, handler, TRUE),
                        schedNow).tasks
    /\ UNCHANGED <<scheduler, schedLoops, executions, schedNow, tasksFile,
                   manager, schedHist, nonSched>>

\* Scheduler.Start(); the callers start a scheduler once
SchedStart ==
    /\ Alive
    /\ ~schedHist.stopped
    /\ IF scheduler.running
       THEN UNCHANGED <<scheduler, schedLoops>>
       ELSE /\ scheduler' = [scheduler EXCEPT !.running = TRUE]
            /\ schedLoops' = [run |-> "select", proc |-> "select"]
    /\ UNCHANGED <<tasks, executions, schedNow, tasksFile, manager, schedHist,
                   nonSched>>

\* Scheduler.Stop(), from its Lock to its return
SchedStop ==
    /\ Alive
    /\ IF ~scheduler.running
       THEN UNCHANGED <<scheduler, schedHist>>
       ELSE /\ scheduler' = [scheduler EXCEPT !.running = FALSE,
                                              !.ctxDone = TRUE,
                                              !.tickerStopped = TRUE,
                                              !.closed = TRUE]
            /\ schedHist' = [schedHist EXCEPT !.stopped = TRUE]
    /\ UNCHANGED <<tasks, schedLoops, executions, schedNow, tasksFile, manager,
                   nonSched>>

\* Scheduler.TriggerTask(taskID): a send on a closed channel panics, also
\* inside a select with a default case
TriggerTask(taskID) ==
    IF taskID \notin DOMAIN tasks THEN "task not found"
    ELSE IF ~tasks[taskID].Enabled THEN "task is disabled"
    ELSE IF scheduler.closed THEN "panic"
    ELSE IF Len(scheduler.taskChan) < TaskChanCap THEN ""
    ELSE "task queue is full"

SchedTriggerTask(taskID) ==
    /\ Alive
    /\ Len(schedHist.triggers) < MaxTriggers
    /\ LET out == TriggerTask(taskID)
       IN /\ scheduler' =
                 [scheduler EXCEPT
                     !.panicked = (out = "panic"),
                     !.taskChan = IF out = "" THEN Append(@, taskID) ELSE @]
          /\ schedHist' = [schedHist EXCEPT !.triggers =
                 Append(@, [id |-> taskID, afterStop |-> schedHist.stopped,
                            out |-> out])]
    /\ UNCHANGED <<tasks, schedLoops, executions, schedNow, tasksFile, manager,
                   nonSched>>

\* half a second passes
Advance ==
    /\ Alive
    /\ schedNow < MaxNow
    /\ schedNow' = schedNow + 1
    /\ UNCHANGED <<scheduler, tasks, schedLoops, executions, tasksFile, manager,
                   schedHist, nonSched>>

\* the ticker puts a tick into ticker.C, whose buffer holds one
TickerFire ==
    /\ Alive
    /\ ~scheduler.tickerStopped
    /\ scheduler.tickerC = 0
    /\ scheduler' = [scheduler EXCEPT !.tickerC = 1]
    /\ UNCHANGED <<tasks, schedLoops, executions, schedNow, tasksFile, manager,
                   schedHist, nonSched>>

\* checkAndScheduleTasks from the i-th task of the range on; st holds the
\* task map, taskChan, the fires recorded and whether a send has panicked
RECURSIVE checkAndScheduleFrom(_, _, _)
checkAndScheduleFrom(order, i, st) ==
    IF i > Len(order) \/ st.panicked THEN st
    ELSE LET id == order[i]
             task == st.tasks[id]
             \* the send succeeded: LastRun = now, NextRun recomputed
             Fired(next) ==
                 [st EXCEPT
                     !.tasks[id] = [@ EXCEPT !.LastRun = schedNow,
                                             !.NextRun = next.at],
                     !.taskChan = Append(@, id),
                     !.fires = Append(@, [id |-> id, at |-> schedNow,
                                          afterStop |-> schedHist.stopped,
                                          nextRun |-> task.NextRun,
                                          newNextRun |-> next.at])]
         IN IF ~task.Enabled \/ schedNow < task.NextRun
            THEN checkAndScheduleFrom(order, i + 1, st)
            ELSE IF scheduler.closed THEN [st EXCEPT !.panicked = TRUE]
            ELSE IF Len(st.taskChan) < TaskChanCap
            THEN checkAndScheduleFrom(order, i + 1,
                     Fired(calculateNextRun(task.CronExpr, schedNow)))
            ELSE checkAndScheduleFrom(order, i + 1, st)

\* the orders in which a range over the task map can visit its keys
RangeOrders(map) ==
    {order \in [1..Cardinality(DOMAIN map) -> DOMAIN map] :
         \A i, j \in DOMAIN order : i # j => order[i] # order[j]}

\* run(): the select takes a tick and calls checkAndScheduleTasks
RunTick ==
    /\ Alive
    /\ schedLoops.run = "select"
    /\ scheduler.tickerC = 1
    /\ \E order \in RangeOrders(tasks) :
          \E st \in {checkAndScheduleFrom(order, 1,
                        [tasks |-> tasks, taskChan |-> scheduler.taskChan,
                         fires |-> schedHist.fires, panicked |-> FALSE])} :
             /\ tasks' = st.tasks
             /\ scheduler' = [scheduler EXCEPT !.tickerC = 0,
                                               !.taskChan = st.taskChan,
                                               !.panicked = st.panicked]
             /\ schedHist' = [schedHist EXCEPT !.fires = st.fires]
    /\ UNCHANGED <<schedLoops, executions, schedNow, tasksFile, manager,
                   nonSched>>

\* run(): the select takes ctx.Done()
RunExit ==
    /\ Alive
    /\ schedLoops.run = "select"
    /\ scheduler.ctxDone
    /\ schedLoops' = [schedLoops EXCEPT !.run = "exited"]
    /\ UNCHANGED <<scheduler, tasks, executions, schedNow, tasksFile, manager,
                   schedHist, nonSched>>

\* a processTasks that receives a task and spawns nothing
ProcReceiveDrops ==
    /\ Alive
    /\ schedLoops.proc = "select"
    /\ scheduler.taskChan # <<>>
    /\ scheduler' = [scheduler EXCEPT !.taskChan = Tail(@)]
    /\ UNCHANGED <<tasks, schedLoops, executions, schedNow, tasksFile, manager,
                   schedHist, nonSched>>

\* processTasks(): the select receives a task and spawns executeTask; a
\* closed channel still hands out what it buffers
ProcReceive ==
    /\ Alive
    /\ schedLoops.proc = "select"
    /\ scheduler.taskChan # <<>>
    /\ scheduler' = [scheduler EXCEPT !.taskChan = Tail(@)]
    /\ executions' = Append(executions,
           [id |-> Head(scheduler.taskChan), pc |-> "spawned",
            spawnedAfterStop |-> schedHist.stopped,
            startedAfterStop |-> FALSE, startedAfterShutdown |-> FALSE,
            sentAfterClose |-> FALSE])
    /\ UNCHANGED <<tasks, schedLoops, schedNow, tasksFile, manager, schedHist,
                   nonSched>>

\* processTasks(): the select takes ctx.Done(), or finds taskChan closed
\* and empty
ProcExit ==
    /\ Alive
    /\ schedLoops.proc = "select"
    /\ scheduler.ctxDone \/ (scheduler.closed /\ scheduler.taskChan = <<>>)
    /\ schedLoops' = [schedLoops EXCEPT !.proc = "exited"]
    /\ UNCHANGED <<scheduler, tasks, executions, schedNow, tasksFile, manager,
                   schedHist, nonSched>>

\* executeTask, first locked part, up to the call of the handler
ExecBegin(e) ==
    /\ Alive
    /\ executions[e].pc = "spawned"
    /\ executions' = [executions EXCEPT ![e].pc = "handler",
                          ![e].startedAfterStop = schedHist.stopped,
                          ![e].startedAfterShutdown =
                              manager.shutdown # "idle"]
    /\ tasks' = [tasks EXCEPT ![executions[e].id].Status = StatusRunning]
    /\ UNCHANGED <<scheduler, schedLoops, schedNow, tasksFile, manager,
                   schedHist, nonSched>>

\* executeTask, from the handler's return on: the counters, then the
\* non-blocking send of the TaskResult
ExecFinish(e) ==
    /\ Alive
    /\ executions[e].pc = "handler"
    /\ LET id == executions[e].id
           err == HandlerError(tasks[id].Handler)
           status == IF err # "" THEN StatusFailed ELSE StatusCompleted
       IN /\ tasks' = [tasks EXCEPT
                 ![id].Status = status,
                 ![id].ErrorCount = IF err # "" THEN @ + 1 ELSE @,
                 ![id].RunCount = IF err # "" THEN @ ELSE @ + 1]
          /\ scheduler' =
                 [scheduler EXCEPT
                     !.panicked = scheduler.closed,
                     !.resultChan =
                         IF ~scheduler.closed /\ Len(@) < TaskChanCap
                         THEN Append(@, [TaskID |-> id, Status |-> status])
                         ELSE @]
          /\ executions' = [executions EXCEPT ![e].pc = "done",
                                ![e].sentAfterClose = scheduler.closed]
    /\ UNCHANGED <<schedLoops, schedNow, tasksFile, manager, schedHist,
                   nonSched>>

SchedNext ==
    \/ \E id \in TaskIDs, cronExpr \in SchedExprs, handler \in TaskHandlers :
          SchedAddTask(id, cronExpr, handler)
    \/ SchedStart
    \/ SchedStop
    \/ \E id \in TaskIDs : SchedTriggerTask(id)
    \/ Advance
    \/ TickerFire
    \/ RunTick
    \/ RunExit
    \/ ProcReceive
    \/ ProcExit
    \/ \E e \in DOMAIN executions : ExecBegin(e)
    \/ \E e \in DOMAIN executions : ExecFinish(e)

SpecSched == BusInit /\ [][SchedNext]_vars

\* a scheduler that is started and never stopped.  The ticker keeps
\* ticking, time passes, and the Go runtime lets every goroutine that can
\* take a step take it
RunningNext ==
    \/ \E id \in TaskIDs, cronExpr \in SchedExprs, handler \in TaskHandlers :
          SchedAddTask(id, cronExpr, handler)
    \/ SchedStart
    \/ Advance
    \/ TickerFire
    \/ RunTick
    \/ ProcReceive
    \/ \E e \in DOMAIN executions : ExecBegin(e)
    \/ \E e \in DOMAIN executions : ExecFinish(e)

SpecSchedRunning ==
    /\ BusInit
    /\ [][RunningNext]_vars
    /\ WF_vars(Advance)
    /\ WF_vars(TickerFire)
    /\ WF_vars(RunTick)
    /\ WF_vars(ProcReceive)
    /\ WF_vars(\E e \in DOMAIN executions : ExecBegin(e))
    /\ WF_vars(\E e \in DOMAIN executions : ExecFinish(e))

(***************************************************************************)
(* TaskManager (src/internal/scheduler/task_manager.go) and the part of    *)
(* main that owns it (src/cmd/main.go).  The tasks file holds the JSON     *)
(* array of TaskConfig; the order of the array is left out.                *)
(***************************************************************************)
\* TaskConfig{ID, Name, Description, CronExpr, Enabled} of a task
TaskConfigOf(task) ==
    [ID |-> task.ID, Name |-> task.Name, Description |-> task.Description,
     CronExpr |-> task.CronExpr, Enabled |-> task.Enabled]

\* the entries of the tasks file; none if the file does not exist
FileConfigs(file) == IF file = <<>> THEN {} ELSE file[1]

\* saveTasks(): the file written from ListTasks()
saveTasks(map) == <<{TaskConfigOf(map[id]) : id \in DOMAIN map}>>

\* loadTasks(): "for _, config := range configs", AddTask on a Task built
\* from the config alone, a failed AddTask logged and skipped
RECURSIVE loadTasks(_, _, _)
loadTasks(map, configs, at) ==
    IF configs = {} THEN map
    ELSE LET config == CHOOSE c \in configs : TRUE
             task == [NewTask(config.ID, config.Name, config.Description,
                              config.CronExpr, NilHandler, config.Enabled)
                          EXCEPT !.Status = StatusPending]
         IN loadTasks(AddTask(map, task, at).tasks, configs \ {config}, at)

\* TaskManager.AddTask(config, handler)
TMAddTask(id, cronExpr, handler, enabled) ==
    /\ Alive
    /\ \E added \in {AddTask(tasks, NewTask(id, id, "", cronExpr, handler,
                                           enabled), schedNow)} :
          /\ tasks' = added.tasks
          /\ tasksFile' = IF added.err # "" THEN tasksFile
                          ELSE saveTasks(added.tasks)
    /\ UNCHANGED <<scheduler, schedLoops, executions, schedNow, manager,
                   schedHist, nonSched>>

\* TaskManager.DisableTask(taskID): Scheduler.DisableTask, then saveTasks
TMDisableTask(taskID) ==
    /\ Alive
    /\ IF taskID \notin DOMAIN tasks
       THEN UNCHANGED <<tasks, tasksFile>>
       ELSE /\ tasks' = [tasks EXCEPT ![taskID].Enabled = FALSE]
            /\ tasksFile' = saveTasks(tasks')
    /\ UNCHANGED <<scheduler, schedLoops, executions, schedNow, manager,
                   schedHist, nonSched>>

\* TaskManager.Start(): loadTasks, then "go m.watchResults()"
TMStart ==
    /\ Alive
    /\ ~manager.started
    /\ tasks' = loadTasks(tasks, FileConfigs(tasksFile), schedNow)
    /\ manager' = [manager EXCEPT !.started = TRUE]
    /\ schedHist' = [schedHist EXCEPT !.loaded =
           Append(@, [boot |-> manager.boots,
                      file |-> FileConfigs(tasksFile),
                      held |-> {TaskConfigOf(tasks'[id]) :
                                    id \in DOMAIN tasks'}])]
    /\ UNCHANGED <<scheduler, schedLoops, executions, schedNow, tasksFile,
                   nonSched>>

\* TaskManager.Stop(): m.cancel(), then saveTasks; the scheduler is not
\* touched
TMStop ==
    /\ Alive
    /\ manager' = [manager EXCEPT !.ctxDone = TRUE]
    /\ tasksFile' = saveTasks(tasks)
    /\ UNCHANGED <<scheduler, tasks, schedLoops, executions, schedNow,
                   schedHist, nonSched>>

\* watchResults(): a result is received and handleResult saves the tasks
WatchResult ==
    /\ Alive
    /\ manager.started
    /\ ~manager.ctxDone
    /\ scheduler.resultChan # <<>>
    /\ scheduler' = [scheduler EXCEPT !.resultChan = Tail(@)]
    /\ tasksFile' = IF Head(scheduler.resultChan).TaskID \in DOMAIN tasks
                    THEN saveTasks(tasks) ELSE tasksFile
    /\ UNCHANGED <<tasks, schedLoops, executions, schedNow, manager, schedHist,
                   nonSched>>

\* the process ends and the program is started again: a new scheduler and
\* a new task manager over the tasks file that the earlier run left
Reboot ==
    /\ manager.boots < MaxBoots
    /\ scheduler' = NewScheduler
    /\ tasks' = EmptyMap
    /\ schedLoops' = [run |-> "notstarted", proc |-> "notstarted"]
    /\ executions' = <<>>
    /\ manager' = [NewTaskManager EXCEPT !.boots = manager.boots + 1]
    /\ schedHist' = [schedHist EXCEPT !.stopped = FALSE]
    /\ UNCHANGED <<schedNow, tasksFile, nonSched>>

TaskManagerNext ==
    \/ \E id \in TaskIDs, cronExpr \in SchedExprs, handler \in TaskHandlers,
          enabled \in BOOLEAN : TMAddTask(id, cronExpr, handler, enabled)
    \/ \E id \in TaskIDs : TMDisableTask(id)
    \/ TMStart
    \/ TMStop
    \/ Advance
    \/ Reboot

SpecTaskManager == BusInit /\ [][TaskManagerNext]_vars

\* main, the scheduler part of initializeAgent with Scheduler.Enabled
\* and AutoStart: the scheduler and the task manager go into a variable
\* local to the function, which hides the package-level taskManager
MainInit ==
    /\ Alive
    /\ manager.local = "nil"
    /\ scheduler' = [scheduler EXCEPT !.running = TRUE]
    /\ schedLoops' = [run |-> "select", proc |-> "select"]
    /\ tasks' = loadTasks(tasks, FileConfigs(tasksFile), schedNow)
    /\ manager' = [manager EXCEPT !.local = "set", !.started = TRUE]
    /\ UNCHANGED <<executions, schedNow, tasksFile, schedHist, nonSched>>

\* gracefulShutdown, the scheduler part: "if taskManager != nil" reads the
\* package-level variable
GracefulShutdown ==
    /\ Alive
    /\ manager.local = "set"
    /\ manager.shutdown = "idle"
    /\ IF manager.global # "nil"
       THEN /\ manager' = [manager EXCEPT !.ctxDone = TRUE,
                                           !.shutdown = "done"]
            /\ tasksFile' = saveTasks(tasks)
       ELSE /\ manager' = [manager EXCEPT !.shutdown = "done"]
            /\ UNCHANGED tasksFile
    /\ UNCHANGED <<scheduler, tasks, schedLoops, executions, schedNow,
                   schedHist, nonSched>>

\* main returns after gracefulShutdown and the process ends
MainReturn ==
    /\ Alive
    /\ manager.shutdown = "done"
    /\ manager' = [manager EXCEPT !.shutdown = "exited"]
    /\ UNCHANGED <<scheduler, tasks, schedLoops, executions, schedNow,
                   tasksFile, schedHist, nonSched>>

\* the program from start to shutdown, with the tasks its users add
MainNext ==
    \/ MainInit
    \/ \E id \in TaskIDs, handler \in TaskHandlers :
          manager.local = "set" /\ TMAddTask(id, EverySecond, handler, TRUE)
    \/ Advance
    \/ TickerFire
    \/ RunTick
    \/ ProcReceive
    \/ \E e \in DOMAIN executions : ExecBegin(e)
    \/ \E e \in DOMAIN executions : ExecFinish(e)
    \/ WatchResult
    \/ GracefulShutdown
    \/ MainReturn

SpecMain == BusInit /\ [][MainNext]_vars

(***************************************************************************)
(* Who touches the tool registry, the agent's chat-history cache and the   *)
(* scheduler's task state, and under which lock.  An operation is the      *)
(* sequence of its accesses; an access names the object, whether it reads  *)
(* or writes it, and how the goroutine holds the object's RWMutex          *)
(* meanwhile: "none", "shared" (RLock) or "exclusive" (Lock).              *)
(***************************************************************************)
Access(object, kind, lock) == [object |-> object, kind |-> kind, lock |-> lock]

\* ToolRegistry has no mutex field: Get and GetSchemas read r.tools bare
RegistryOps ==
    [RegistryGet |-> <<Access("registry", "read", "none")>>,
     RegistryGetSchemas |-> <<Access("registry", "read", "none")>>]

\* Agent has no mutex field: getChatHistory reads a.chatHistory and, on a
\* miss, writes it; setChatHistory writes it
ChatHistoryOps ==
    [getChatHistoryHit |-> <<Access("chatHistory", "read", "none")>>,
     getChatHistoryMiss |-> <<Access("chatHistory", "read", "none"),
                              Access("chatHistory", "write", "none")>>,
     setChatHistory |-> <<Access("chatHistory", "write", "none")>>]

\* Scheduler.mu: AddTask and executeTask write under Lock; GetStats reads
\* under RLock; checkAndScheduleTasks writes task.LastRun and task.NextRun
\* under RLock; TriggerTask reads the map under RLock and task.Enabled
\* after RUnlock
SchedulerOps ==
    [AddTask |-> <<Access("tasks", "write", "exclusive")>>,
     executeTask |-> <<Access("tasks", "write", "exclusive")>>,
     GetStats |-> <<Access("tasks", "read", "shared")>>,
     checkAndScheduleTasks |-> <<Access("tasks", "write", "shared")>>,
     TriggerTask |-> <<Access("tasks", "read", "shared"),
                       Access("tasks", "read", "none")>>]

Operations == RegistryOps @@ ChatHistoryOps @@ SchedulerOps

ThreadOps(t) ==
    CASE t \in {"handler1", "handler2"} ->
             DOMAIN RegistryOps \cup DOMAIN ChatHistoryOps
      [] t = "tick" -> {"checkAndScheduleTasks"}
      [] t = "worker" -> {"executeTask"}
      [] t = "caller" -> {"AddTask", "GetStats", "TriggerTask"}

InAccess(t) == accesses[t] # <<>>
CurrentAccess(t) == Operations[accesses[t][1].op][accesses[t][1].seg]

\* sync.RWMutex: Lock waits for every holder, RLock for a writer
CanEnter(t, access) ==
    \A u \in Threads \ {t} :
        InAccess(u) /\ CurrentAccess(u).object = access.object =>
            CASE access.lock = "exclusive" -> CurrentAccess(u).lock = "none"
              [] access.lock = "shared" -> CurrentAccess(u).lock # "exclusive"
              [] OTHER -> TRUE

\* goroutine t starts operation op: it enters the first access
OpBegin(t, op) ==
    /\ ~InAccess(t)
    /\ CanEnter(t, Operations[op][1])
    /\ accesses' = [accesses EXCEPT ![t] = <<[op |-> op, seg |-> 1]>>]
    /\ UNCHANGED <<busVars, busHist, agentVars, agentHist, fsVars, toolVars,
                   cronVars, schedVars, svcVars>>

\* goroutine t leaves its access: for the next one of the operation, or
\* for good
OpStep(t) ==
    /\ InAccess(t)
    /\ LET cur == accesses[t][1]
       IN IF cur.seg < Len(Operations[cur.op])
          THEN /\ CanEnter(t, Operations[cur.op][cur.seg + 1])
               /\ accesses' = [accesses EXCEPT
                                  ![t] = <<[cur EXCEPT !.seg = @ + 1]>>]
          ELSE accesses' = [accesses EXCEPT ![t] = <<>>]
    /\ UNCHANGED <<busVars, busHist, agentVars, agentHist, fsVars, toolVars,
                   cronVars, schedVars, svcVars>>

LocksNext ==
    \/ \E t \in Threads : \E op \in ThreadOps(t) : OpBegin(t, op)
    \/ \E t \in Threads : OpStep(t)

SpecLocks == BusInit /\ [][LocksNext]_vars

(***************************************************************************)
(* Claims about the bus.                                                   *)
(***************************************************************************)
\* the invocations of handler h with message p
DeliveredTo(p, h) ==
    {d \in BagToSet(deliveries) : d.h = h /\ d.msg.ptr = p}

NumDelivered(p, h) ==
    BagCardinality([d \in DeliveredTo(p, h) |-> deliveries[d]])

\* the fan-out of message p has ended and every task it spawned has begun
Completed(p) ==
    /\ p \in fanned
    /\ ~\E g \in goroutines : g.msg.ptr = p /\ g.st = "spawned"

C6_PublishAfterCloseRejected ==
    \A p \in DOMAIN pubLog :
        pubLog[p].afterClose =>
            /\ pubLog[p].result = "closed"
            /\ ~\E i \in DOMAIN messageCh : messageCh[i].ptr = p
            /\ \A h \in Handlers : NumDelivered(p, h) = 0

\* C7: when Close has returned no handler task is pending or running, the
\* dispatcher has exited, and no handler invocation begins afterwards.
C7_CloseDrains ==
    /\ closePc = "returned" => (goroutines = {} /\ dispPc = "exited" /\ wg = 0)
    /\ lateStarts = 0

C7_Witness ==
    /\ closePc = "returned"
    /\ \E p \in DOMAIN pubLog, h \in Handlers :
          pubLog[p].duringClose /\ NumDelivered(p, h) = 1

(***************************************************************************)
(* Claims about the agent.                                                 *)
(***************************************************************************)
\* HandleMessage calls begun so far, by the ptr of the inbound message
TurnsBegun == DOMAIN turnLog \cup DOMAIN turns

\* the user message at the root of message p's identifier
RootOf(p) == pubLog[p].msg.ID.n

IsUserMessage(p) == pubLog[p].msg.ID.depth = 0

\* the agent's published messages that answer, directly or not, user message u
ResponsesTo(u) ==
    {q \in DOMAIN pubLog :
        /\ ~IsUserMessage(q)
        /\ RootOf(q) = RootOf(u)
        /\ pubLog[q].result = "ok"}

\* C1: every user message published on an agent topic triggers at most one
\* agent turn and is answered by at most one published message, which is on
\* the same topic, has the same chat identifier and the identifier
\* "agent-<inbound id>"; a turn that ended without a loop failure and whose
\* Publish was accepted has its one response.
C1_OneTurnOneResponse ==
    \A u \in DOMAIN pubLog :
        IsUserMessage(u) =>
            /\ Cardinality({p \in TurnsBegun : RootOf(p) = RootOf(u)}) <= 1
            /\ Cardinality(ResponsesTo(u)) <= 1
            /\ \A q \in ResponsesTo(u) :
                  /\ pubLog[q].topic = pubLog[u].topic
                  /\ pubLog[q].msg.ChatID = pubLog[u].msg.ChatID
                  /\ pubLog[q].msg.ID = AgentID(pubLog[u].msg.ID)
            /\ (u \in DOMAIN turnLog /\ turnLog[u].published = "ok") =>
                  Cardinality(ResponsesTo(u)) = 1

IsToolCallResponse(resp) ==
    resp.kind = "json" /\ resp.final = "" /\ Len(resp.calls) > 0

\* C2: a turn makes at most MaxIterations LLM calls; it ends with the raw
\* response as the reply at the first response that is not a tool-call
\* response, and with the max-iterations error after MaxIterations tool-call
\* responses; it ends in no other way than these or an LLM error.
C2_LoopTerminates ==
    /\ \A p \in DOMAIN turns : turns[p].iteration <= MaxIterations
    /\ \A p \in DOMAIN turnLog :
          LET t == turnLog[p]
              n == Len(t.responses)
          IN t.outcome # "notice" =>
                /\ n <= MaxIterations
                /\ t.outcome \in {"ok", "llm_error", "max_iter"}
                /\ \A i \in 1..(n - 1) : IsToolCallResponse(t.responses[i])
                /\ t.outcome = "ok" =>
                      /\ n >= 1
                      /\ ~IsToolCallResponse(t.responses[n])
                      /\ t.reply = t.responses[n]
                /\ (n = MaxIterations /\ IsToolCallResponse(t.responses[n])) =>
                      t.outcome = "max_iter"

\* the tool batches run so far, with the state of the turn they belong to
BatchesRun ==
    UNION {{[batch |-> turnLog[p].batches[i],
             died |-> (turnLog[p].outcome = "panic"
                       /\ i = Len(turnLog[p].batches))] :
               i \in DOMAIN turnLog[p].batches} : p \in DOMAIN turnLog}
    \cup UNION {{[batch |-> turns[p].batches[i], died |-> FALSE] :
               i \in DOMAIN turns[p].batches} : p \in DOMAIN turns}

\* C3: of a response that lists several tool calls every call is executed,
\* in the listed order; a call that fails (the tool's own error, or a tool
\* that is not registered) has its error text in its record of the
\* observation, and the turn goes on.
C3_BatchRunsEveryCall ==
    \A b \in BatchesRun :
        Len(b.batch.calls) >= 2 =>
            /\ b.batch.attempted = b.batch.calls
            /\ Len(b.batch.results) = Len(b.batch.calls)
            /\ \A i \in DOMAIN b.batch.results :
                  (Execute(b.batch.calls[i]).err # ""
                   \/ Execute(b.batch.calls[i]).call.Error # "")
                     => b.batch.results[i].Error # ""
            /\ ~b.died

\* C4: a turn whose loop failed (LLM error, or max iterations) has published
\* an error message on the origin channel with the inbound chat identifier.
C4_LoopFailureAnswered ==
    \A p \in DOMAIN turnLog :
        turnLog[p].outcome \in {"llm_error", "max_iter"} =>
            \E q \in DOMAIN pubLog :
                /\ pubLog[q].msg.ID = AgentID(turnLog[p].msg.ID)
                /\ pubLog[q].topic = turnLog[p].msg.Channel
                /\ pubLog[q].msg.ChatID = turnLog[p].msg.ChatID

LogOf(chat) ==
    IF chat \in DOMAIN sessionLog
    THEN MapSeq(LoadedMessage, sessionLog[chat]) ELSE <<>>

ExchangeOf(chat) ==
    IF chat \in DOMAIN conversation THEN conversation[chat] ELSE <<>>

\* C9: the session log of a chat, read back in order, is the conversation as
\* exchanged (each user message and each reply once, in order), and is the
\* agent's cached history of the chat.
C9_LogIsConversation ==
    \A chat \in ChatIDs :
        /\ LogOf(chat) = ExchangeOf(chat)
        /\ chat \in DOMAIN chatHistory => chatHistory[chat] = LogOf(chat)

\* C10: after a turn in which tools ran, the list cached and persisted for
\* the chat is the loop's working list: for every tool iteration the raw
\* tool-call response and the observation stand between the user message
\* and the final reply.
C10_ToolEntriesKept ==
    \A p \in DOMAIN turnLog :
        (turnLog[p].outcome = "ok" /\ Len(turnLog[p].batches) > 0) =>
            /\ turnLog[p].cached = turnLog[p].working
            /\ \A i \in DOMAIN turnLog[p].batches :
                  \E k \in DOMAIN LogOf(turnLog[p].msg.ChatID) :
                      LogOf(turnLog[p].msg.ChatID)[k].Content =
                          Observation(turnLog[p].batches[i].results)

(***************************************************************************)
(* Claims about the file tools.                                            *)
(***************************************************************************)
\* C8: a file tool call whose resolved path is not strictly inside the base
\* directory fails, and no file or directory is read, created, modified or
\* deleted by it.
C8_OutsideBaseRejected ==
    \A i \in DOMAIN fsCalls :
        ~StrictlyInside(fsCalls[i].full) =>
            /\ fsCalls[i].code # ""
            /\ ~fsCalls[i].changed
            /\ fsCalls[i].reported = {}

(***************************************************************************)
(* Claims about the tool executor.                                         *)
(***************************************************************************)
ToolFails(call) == call.Name \in Registry /\ EchoExecute(call.Input).err # ""

C12_StoppedSchedulerRejects ==
    /\ \A k \in DOMAIN schedHist.triggers :
          schedHist.triggers[k].afterStop
              => schedHist.triggers[k].out \notin {"", "panic"}
    /\ \A k \in DOMAIN schedHist.fires : ~schedHist.fires[k].afterStop

\* C13: when Stop has returned, no handler that the scheduler started is
\* still executing, and no worker sends a TaskResult on the closed result
\* channel.
C13_StopDrainsWorkers ==
    schedHist.stopped =>
        \A e \in DOMAIN executions :
            /\ executions[e].pc # "handler"
            /\ ~executions[e].sentAfterClose

\* C20: every read of the tool registry, of the chat-history cache and of
\* the scheduler's task state holds at least the shared lock, every write
\* holds the exclusive lock, and no two goroutines are inside the same
\* object at once when one of them writes.
C20_AccessesAreLocked ==
    /\ \A t \in Threads :
          InAccess(t) =>
              /\ CurrentAccess(t).lock # "none"
              /\ CurrentAccess(t).kind = "write"
                    => CurrentAccess(t).lock = "exclusive"
    /\ \A t, u \in Threads :
          /\ t # u
          /\ InAccess(t)
          /\ InAccess(u)
          /\ CurrentAccess(t).object = CurrentAccess(u).object
          => CurrentAccess(t).kind = "read" /\ CurrentAccess(u).kind = "read"

\* C16: after TaskManager.Start on a tasks file written by an earlier run
\* the scheduler holds a task for every entry of the file, with the same
\* id, name, description, cron expression and enabled flag, and the file
\* lists those entries (by id) after the later saves of that run.
C16_PersistedTasksRestored ==
    \A k \in DOMAIN schedHist.loaded :
        /\ schedHist.loaded[k].file \subseteq schedHist.loaded[k].held
        /\ schedHist.loaded[k].boot = manager.boots
              => \A c \in schedHist.loaded[k].file :
                     \E d \in FileConfigs(tasksFile) : d.ID = c.ID

\* C17: when the shutdown sequence has completed the scheduler is not
\* running, its tick and worker loops have exited, and no handler of a
\* scheduled task has been started since.
C17_ShutdownStopsScheduler ==
    manager.shutdown = "done" =>
        /\ ~scheduler.running
        /\ schedLoops.run = "exited"
        /\ schedLoops.proc = "exited"
        /\ \A e \in DOMAIN executions : ~executions[e].startedAfterShutdown

\* the task with the given id; a disabled task that never ran if there is
\* none
TaskAt(id) ==
    IF id \in DOMAIN tasks THEN tasks[id]
    ELSE NewTask(id, "", "", <<>>, NilHandler, FALSE)

\* task id is enabled and its NextRun has been reached, in a running scheduler
Due(id) ==
    /\ scheduler.running
    /\ id \in DOMAIN tasks
    /\ TaskAt(id).Enabled
    /\ schedNow >= TaskAt(id).NextRun

\* how often the tick loop has enqueued task id, and how often a worker has
\* invoked its handler
Fires(id) ==
    Cardinality({k \in DOMAIN schedHist.fires : schedHist.fires[k].id = id})
Invoked(id) ==
    Cardinality({e \in DOMAIN executions :
                    /\ executions[e].id = id
                    /\ executions[e].pc \in {"handler", "done"}})

\* every due task is enqueued by the tick loop, and every task enqueued is
\* handed to a worker that invokes its handler
DueTasksAreRun ==
    \A id \in TaskIDs :
        /\ \A t \in 0..MaxNow :
              (Due(id) /\ TaskAt(id).NextRun = t)
                  ~> (id \in DOMAIN tasks /\ TaskAt(id).LastRun >= t)
        /\ \A n \in 1..MaxNow : (Fires(id) >= n) ~> (Invoked(id) >= n)

\* LastRun never goes back
LastRunMonotonic ==
    [][\A id \in DOMAIN tasks :
          id \in DOMAIN tasks' /\ tasks'[id].LastRun >= tasks[id].LastRun]_vars

\* C18: in a running scheduler every enabled task whose NextRun has been
\* reached is eventually handed to a worker and its handler invoked; the
\* RunCount of a task scheduled every second keeps increasing, and LastRun
\* never goes back.
C18_DueTasksRunAndCount ==
    /\ DueTasksAreRun
    /\ LastRunMonotonic
    /\ \A id \in TaskIDs : \A n \in 0..MaxNow :
          (/\ Due(id)
           /\ TaskAt(id).CronExpr = EverySecond
           /\ TaskAt(id).RunCount = n) ~> (TaskAt(id).RunCount > n)

\* C18, amended: as C18, the RunCount of a task scheduled every second
\* keeps increasing if its handler returns without an error; a handler's
\* error is counted in ErrorCount instead.
C18_DueTasksRunAndCountOnSuccess ==
    /\ DueTasksAreRun
    /\ LastRunMonotonic
    /\ \A id \in TaskIDs : \A n \in 0..MaxNow :
          (/\ Due(id)
           /\ TaskAt(id).CronExpr = EverySecond
           /\ TaskAt(id).RunCount + TaskAt(id).ErrorCount = n)
              ~> (TaskAt(id).RunCount + TaskAt(id).ErrorCount > n)
    /\ \A id \in TaskIDs : \A n \in 0..MaxNow :
          (/\ Due(id)
           /\ TaskAt(id).CronExpr = EverySecond
           /\ HandlerError(TaskAt(id).Handler) = ""
           /\ TaskAt(id).RunCount = n) ~> (TaskAt(id).RunCount > n)

\* a task scheduled every second has run twice, and LastRun has advanced
C18_Witness ==
    \E id \in DOMAIN tasks :
        /\ TaskAt(id).CronExpr = EverySecond
        /\ TaskAt(id).RunCount >= 2
        /\ Fires(id) >= 2
        /\ TaskAt(id).LastRun > Second

IsNumber(s) == Len(s) > 0 /\ \A i \in DOMAIN s : IsDigit(s[i])

NumberIn(s, min, max) ==
    IsNumber(s) /\ DecimalValue(s) >= min /\ DecimalValue(s) <= max

IsRange(s, min, max) ==
    LET parts == Split(s, "-")
    IN /\ Len(parts) = 2
       /\ NumberIn(parts[1], min, max)
       /\ NumberIn(parts[2], min, max)
       /\ DecimalValue(parts[1]) <= DecimalValue(parts[2])

IsStep(s, min, max) ==
    LET parts == Split(s, "/")
    IN /\ Len(parts) = 2
       /\ IsNumber(parts[2])
       /\ DecimalValue(parts[2]) >= 1
       /\ \/ parts[1] = <<"*">>
          \/ IsRange(parts[1], min, max)
          \/ NumberIn(parts[1], min, max)

InGrammar(field, min, max) ==
    \/ field = <<"*">>
    \/ \A k \in DOMAIN Split(field, ",") :
          LET item == Split(field, ",")[k]
          IN \/ NumberIn(item, min, max)
             \/ IsRange(item, min, max)
             \/ IsStep(item, min, max)

\* C15: parsing a field terminates; a field is accepted only if it follows
\* the grammar, an accepted field is stored as a sorted, duplicate-free
\* list of values inside the field's range, and every other field is
\* rejected with an error.
C15_ParseFieldGrammar ==
    \A i \in DOMAIN cronParsed :
        LET c == cronParsed[i]
        IN /\ c.out.status \in {"ok", "error"}
           /\ c.out.status = "ok" <=> InGrammar(c.field, c.min, c.max)
           /\ c.out.status = "ok" =>
                 /\ \A k \in DOMAIN c.out.values :
                       c.out.values[k] >= c.min /\ c.out.values[k] <= c.max
                 /\ \A k \in 1..(Len(c.out.values) - 1) :
                       c.out.values[k] < c.out.values[k + 1]

\* C14: for an accepted expression and an instant t, Next(t) terminates (a
\* schedule that constrains the second field alone is decided within the
\* sixty seconds of a minute) and returns an instant strictly later than t
\* that matches the schedule; Next(Next(t)) is strictly later than Next(t).
C14_NextTerminatesLater ==
    /\ cronSearch.pc = "scan" => cronSearch.scanned < SecondsPerMinute
    /\ \A k \in DOMAIN cronSearch.results :
          /\ cronSearch.results[k].at > cronSearch.results[k].from
          /\ matches(cronSearch.schedule, cronSearch.results[k].at)
          /\ k > 1 => cronSearch.results[k].at > cronSearch.results[k - 1].at

(***************************************************************************)
(* Publish followed through its select (src/internal/bus/message.go:85-97) *)
(* on a bus whose queue can be full.  Seconds pass by Tick; a select       *)
(* returns as soon as one of its cases is ready.                           *)
(***************************************************************************)
HasRoomAlways(ch) == TRUE

\* case b.messageCh <- msg is ready
HasRoom(ch) == Len(ch) < QueueCap

\* the queue is full and holds what it held when call c began: nothing has
\* been received from it since
StillFull(c) ==
    /\ Len(messageCh) = QueueCap
    /\ c.fullAtBegin
    /\ Head(messageCh).ptr = c.headAtBegin

\* the cases of the select of call c that are ready
ReadyCases(c) ==
    (IF HasRoom(messageCh) THEN {"ok"} ELSE {})
    \cup (IF c.ctxDone THEN {"ctx_err"} ELSE {})
    \cup (IF c.waited >= PublishTimeout THEN {"timeout"} ELSE {})

Pending(i) == i \in DOMAIN pubCalls /\ pubCalls[i].pc = "select"

busRest == <<subscribers, chClosed, ctxDone, wg, dispPc, dispMsg, dispVisited,
             dispSnapshot, goroutines, closePc, crashed>>

\* Publish(ctx, channel, msg) by a caller that makes its calls one after
\* the other: the message is stamped and the select is entered
PublishBegin(t) ==
    /\ ~crashed
    /\ ~chClosed
    /\ \A i \in DOMAIN pubCalls : ~Pending(i)
    /\ nextPtr <= QueueCap + MaxBlocked
    /\ pubCalls' = Append(pubCalls,
           [msg |-> Stamp(NewMessage(nextPtr, UserID(nextPtr), "c1",
                                     UserText(nextPtr)), t, clock),
            pc |-> "select", waited |-> 0, ctxDone |-> FALSE,
            fullAtBegin |-> Len(messageCh) = QueueCap,
            headAtBegin |-> IF messageCh = <<>> THEN 0
                            ELSE Head(messageCh).ptr,
            stayedFull |-> FALSE, result |-> "none"])
    /\ clock' = clock + 1
    /\ nextPtr' = nextPtr + 1
    /\ UNCHANGED <<messageCh, busRest, pubLog, deliveries, fanned, lateStarts>>
    /\ UNCHANGED exceptPub

\* the caller's context is cancelled, before the select has looked at its
\* cases or while the call waits
CallerCancel(i) ==
    /\ Pending(i)
    /\ ~pubCalls[i].ctxDone
    /\ pubCalls' = [pubCalls EXCEPT ![i].ctxDone = TRUE]
    /\ UNCHANGED <<busVars, busHist, exceptPub>>

\* a second passes for every waiting call; none of them has a ready case
Tick ==
    /\ \E i \in DOMAIN pubCalls : Pending(i)
    /\ \A i \in DOMAIN pubCalls : Pending(i) => ReadyCases(pubCalls[i]) = {}
    /\ pubCalls' = [i \in DOMAIN pubCalls |->
                       IF Pending(i)
                       THEN [pubCalls[i] EXCEPT !.waited = @ + 1]
                       ELSE pubCalls[i]]
    /\ UNCHANGED <<busVars, busHist, exceptPub>>

\* the select of call i takes the ready case r and Publish returns
PublishReturn(i, r) ==
    /\ ~crashed
    /\ Pending(i)
    /\ r \in ReadyCases(pubCalls[i])
    /\ pubCalls' = [pubCalls EXCEPT ![i].pc = "returned", ![i].result = r,
                                    ![i].stayedFull = StillFull(pubCalls[i])]
    /\ messageCh' = IF r = "ok" THEN Append(messageCh, pubCalls[i].msg)
                    ELSE messageCh
    /\ UNCHANGED <<busRest, busHist>>
    /\ UNCHANGED exceptPub

\* one handler per topic
OnePerTopic == {h \in Handlers : \A g \in Handlers : TopicOf(g) = TopicOf(h) => g >= h}

\* the handlers are subscribed before the first message is published, as
\* main wires the agent and the transports before it starts them
SubscribeFirst(h) == pubCalls = <<>> /\ Subscribe(TopicOf(h), h)

BusFullNext ==
    \/ BusStart
    \/ \E h \in OnePerTopic : SubscribeFirst(h)
    \/ \E t \in BusTopics : PublishBegin(t)
    \/ \E i \in 1..(QueueCap + MaxBlocked) : CallerCancel(i)
    \/ Tick
    \/ \E i \in 1..(QueueCap + MaxBlocked),
          r \in {"ok", "ctx_err", "timeout"} : PublishReturn(i, r)
    \/ BusRun

SpecBusFull == BusInit /\ [][BusFullNext]_vars

\* the message of call c is in the queue, with the dispatcher, with a
\* handler task, or has been handed to a handler
Travelling(c) ==
    \/ \E k \in DOMAIN messageCh : messageCh[k].ptr = c.msg.ptr
    \/ dispMsg # <<>> /\ dispMsg[1].ptr = c.msg.ptr
    \/ \E g \in goroutines : g.msg.ptr = c.msg.ptr
    \/ \E d \in BagToSet(deliveries) : d.msg.ptr = c.msg.ptr

\* C21: a Publish call made on a full queue that stays full until the call
\* returns ends with the timeout error once 5 seconds have passed, or with
\* the caller's context error if that context was cancelled before then;
\* either way its message is never enqueued and never reaches a handler.
C21_FullQueueTimesOut ==
    \A i \in DOMAIN pubCalls :
        LET c == pubCalls[i]
        IN (c.pc = "returned" /\ c.stayedFull) =>
              /\ c.result \in {"timeout", "ctx_err"}
              /\ c.result = "timeout" => c.waited = PublishTimeout
              /\ c.result = "ctx_err" => c.ctxDone
              /\ (c.ctxDone /\ c.waited < PublishTimeout) =>
                     c.result = "ctx_err"
              /\ ~Travelling(c)

\* a call has timed out on a queue that stayed full, and the message that
\* filled the queue went on to a handler afterwards
C21_Witness ==
    /\ \E i \in DOMAIN pubCalls :
          /\ pubCalls[i].pc = "returned" /\ pubCalls[i].stayedFull
          /\ pubCalls[i].result = "timeout"
    /\ deliveries # EmptyBag

(***************************************************************************)
(* Subscribe and Unsubscribe with the handler IDs they exchange            *)
(* (src/internal/bus/message.go:99-124).  The ID is made of the channel,   *)
(* the wall clock reading and the size of the channel's handler map; the   *)
(* wall clock need not have moved between two calls.                       *)
(***************************************************************************)
\* fmt.Sprintf("%s-%d-%d", channel, time.Now().UnixNano(), len(b.subscribers[channel]))
HandlerID(channel, now, handlers) ==
    [channel |-> channel, nanos |-> now, n |-> Cardinality(DOMAIN handlers)]

\* m[k] = v
MapPut(m, k, v) == [x \in DOMAIN m \cup {k} |-> IF x = k THEN v ELSE m[x]]

\* delete(m, k)
MapDelete(m, k) == [x \in DOMAIN m \ {k} |-> m[x]]

MapValues(m) == {m[x] : x \in DOMAIN m}

idRest == <<messageCh, chClosed, ctxDone, wg, dispPc, dispMsg, dispVisited,
            dispSnapshot, goroutines, closePc>>

\* the handler map of topic t becomes m
SetHandlers(t, m) ==
    /\ handlerIDs' = [handlerIDs EXCEPT ![t] = m]
    /\ subscribers' = [subscribers EXCEPT ![t] = MapValues(m)]
    /\ pubLog' = Unsettle(pubLog, t)
    /\ \/ crashed' = crashed
       \/ RacesWithFanOut(t) /\ crashed' = TRUE
    /\ UNCHANGED idRest
    /\ UNCHANGED <<clock, nextPtr, deliveries, fanned, lateStarts>>
    /\ UNCHANGED exceptIDs

\* id, err := b.Subscribe(TopicOf(h), h), for a handler not subscribed before
SubscribeCall(h) ==
    /\ ~crashed
    /\ Started
    /\ subCalls[h].id = NoID
    /\ \E id \in {HandlerID(TopicOf(h), wallClock, handlerIDs[TopicOf(h)])} :
          /\ SetHandlers(TopicOf(h), MapPut(handlerIDs[TopicOf(h)], id, h))
          /\ subCalls' = [subCalls EXCEPT ![h].id = id, ![h].pubs = nextPtr]
    /\ UNCHANGED wallClock

\* err := b.Unsubscribe(TopicOf(h), id) with the ID that Subscribe returned
\* for h
UnsubscribeCall(h) ==
    /\ ~crashed
    /\ Started
    /\ subCalls[h].id # NoID
    /\ Len(subCalls[h].unsubs) < MaxUnsubs
    /\ IF subCalls[h].id \in DOMAIN handlerIDs[TopicOf(h)]
       THEN /\ SetHandlers(TopicOf(h),
                           MapDelete(handlerIDs[TopicOf(h)], subCalls[h].id))
            /\ subCalls' = [subCalls EXCEPT ![h].unsubs = Append(@,
                   [result |-> "ok", pubs |-> nextPtr,
                    removed |-> handlerIDs[TopicOf(h)][subCalls[h].id]])]
       ELSE /\ subCalls' = [subCalls EXCEPT ![h].unsubs = Append(@,
                   [result |-> "not_found", pubs |-> nextPtr, removed |-> 0])]
            /\ UNCHANGED <<handlerIDs, busVars, busHist, exceptIDs>>
    /\ UNCHANGED wallClock

\* the wall clock moves on
WallAdvance ==
    /\ wallClock < MaxWall
    /\ wallClock' = wallClock + 1
    /\ UNCHANGED <<handlerIDs, subCalls, busVars, busHist, exceptIDs>>

BusIDsNext ==
    \/ BusStart
    \/ \E h \in Handlers : SubscribeCall(h)
    \/ \E h \in Handlers : UnsubscribeCall(h)
    \/ WallAdvance
    \/ \E t \in BusTopics : Publish(t, "background")
    \/ BusRun

SpecBusIDs == BusInit /\ [][BusIDsNext]_vars

\* C22: once Unsubscribe(T, id of h) has succeeded, no message published on T
\* afterwards is handed to h, and a second Unsubscribe with the same ID
\* returns handler-not-found; the handlers of T that nobody unsubscribed
\* stay subscribed and are handed every message published on T.
C22_UnsubscribeRemovesOnlyH ==
    /\ \A h \in Handlers :
          (subCalls[h].unsubs # <<>> /\ subCalls[h].unsubs[1].result = "ok") =>
              /\ \A d \in BagToSet(deliveries) :
                    d.h = h => d.msg.ptr < subCalls[h].unsubs[1].pubs
              /\ Len(subCalls[h].unsubs) >= 2 =>
                    subCalls[h].unsubs[2].result = "not_found"
    /\ \A g \in Handlers :
          (subCalls[g].id # NoID /\ subCalls[g].unsubs = <<>>) =>
              /\ g \in subscribers[TopicOf(g)]
              /\ \A p \in DOMAIN pubLog :
                    (/\ pubLog[p].topic = TopicOf(g)
                     /\ p >= subCalls[g].pubs
                     /\ Completed(p)
                     /\ pubLog[p].stable) => NumDelivered(p, g) = 1

(***************************************************************************)
(* The remote-tool client (src/internal/mcp/mcp_client.go), its adapter    *)
(* and manager (src/internal/mcp/mcp_test.go:891-1263).  A name or a text  *)
(* is a sequence of pieces, so that prefixing and joining are              *)
(* concatenations.  The server's reply to a request is an input.           *)
(***************************************************************************)
\* AdapterConfig.Prefix as NewAdapter defaults it
Prefix == <<"mcp_">>

\* names the remote catalog can hold
RemoteNames == {<<"ping">>, <<"mcp_", "ping">>}

\* names of tools registered by other parts of the program
LocalNames == {<<"local">>, <<"mcp_", "ping">>}

NL == "\n"

\* a content chunk of a tools/call result
Chunk(type, text) == [type |-> type, text |-> text]

Pong == Chunk("text", <<"pong">>)

\* replies of the server: the request fails in transport (no connection, or
\* an HTTP status outside 2xx); or HTTP 2xx with a JSON-RPC body that has an
\* error member and no result; or HTTP 2xx with a result
TransportError == [kind |-> "transport_error"]
RPCError == [kind |-> "rpc_error"]
Result(tools, content, isError) ==
    [kind |-> "result", tools |-> tools, content |-> content,
     isError |-> isError]

InitializeReplies == {TransportError, RPCError, Result({}, <<>>, FALSE)}

ListReplies ==
    {TransportError, RPCError} \cup
    {Result(c, <<>>, FALSE) : c \in SUBSET RemoteNames}

CallReplies ==
    {TransportError, RPCError,
     Result({}, <<Pong>>, FALSE),
     Result({}, <<Chunk("text", <<"a">>), Chunk("image", <<>>),
                  Chunk("text", <<"b">>)>>, FALSE),
     Result({}, <<Chunk("text", <<"boom">>)>>, TRUE),
     Result({}, <<Chunk("image", <<>>), Chunk("text", <<"boom">>)>>, TRUE)}

\* HTTPTransport.sendRequest: an error, or the body
sendRequest(reply) ==
    IF reply.kind = "transport_error" THEN [err |-> TRUE, body |-> reply]
    ELSE [err |-> FALSE, body |-> reply]

\* JSONRPCProtocol.Connect: the body of the reply is dropped
ProtocolConnect(reply) == [err |-> sendRequest(reply).err]

\* JSONRPCProtocol.ListTools: the body is decoded into a struct that has a
\* result member only, so a body without result gives an empty list
ListTools(reply) ==
    IF sendRequest(reply).err THEN [err |-> TRUE, tools |-> {}]
    ELSE IF reply.kind = "result" THEN [err |-> FALSE, tools |-> reply.tools]
    ELSE [err |-> FALSE, tools |-> {}]

\* a JSON-RPC request as it goes out
Request(id, method, name, key) ==
    [id |-> id, method |-> method, name |-> name, key |-> key]

\* the requests of Connect: initialize, and tools/list if initialize passed
ConnectRequests(r1) ==
    <<Request(1, "initialize", <<>>, <<>>)>> \o
    (IF ProtocolConnect(r1).err THEN <<>>
     ELSE <<Request(2, "tools/list", <<>>, <<>>)>>)

\* MCPClient.Connect on a client that is not connected: NewProtocol gives a
\* new protocol object whose requestID is 0 (the client keeps the counters
\* of all the protocol objects made, the last being c.protocol's), then
\* initialize, then initializeTools
Connect(c, r1, r2) ==
    IF ProtocolConnect(r1).err
    THEN [err |-> TRUE,
          client |-> [c EXCEPT !.protocol = @ + 1,
                               !.requestID = Append(@, 1),
                               !.connected = FALSE]]
    ELSE IF ListTools(r2).err
    THEN [err |-> TRUE,
          client |-> [c EXCEPT !.protocol = @ + 1,
                               !.requestID = Append(@, 2),
                               !.connected = FALSE]]
    ELSE [err |-> FALSE,
          client |-> [c EXCEPT !.protocol = @ + 1,
                               !.requestID = Append(@, 2),
                               !.connected = TRUE, !.initialized = TRUE,
                               !.tools = ListTools(r2).tools]]

\* the MCPWrappedTool that RegisterTools builds for remote tool t: its
\* registered name, and the name its wrapper passes to ExecuteTool
WrappedToolPrefixedOnWire(t) == [kind |-> "mcp", name |-> Prefix \o t]

WrappedTool(t) == [kind |-> "mcp", name |-> t]

\* ToolRegistry.Register
Register(reg, name, tool) ==
    IF name = <<>> \/ name \in DOMAIN reg THEN [err |-> TRUE, reg |-> reg]
    ELSE [err |-> FALSE, reg |-> MapPut(reg, name, tool)]

\* MCPAdapter.RegisterTools over the client's tools in the order the range
\* over GetTools() yields them; it stops at the first Register that fails
RECURSIVE RegisterTools(_, _)
RegisterTools(reg, order) ==
    IF order = <<>> THEN [err |-> FALSE, reg |-> reg]
    ELSE LET r == Register(reg, Prefix \o Head(order),
                           WrappedTool(Head(order)))
         IN IF r.err THEN r ELSE RegisterTools(r.reg, Tail(order))

\* MCPAdapter.UnregisterTools
UnregisterTools(reg, tools) ==
    [n \in DOMAIN reg \ {Prefix \o t : t \in tools} |-> reg[n]]

\* the orders in which a range over a set can yield it
Orders(S) ==
    {o \in [1..Cardinality(S) -> S] : \A i, j \in DOMAIN o : i # j => o[i] # o[j]}

\* other parts of the program register a tool of their own
RegisterLocal(name) ==
    /\ ~Register(mcpRegistry, name, [kind |-> "local", name |-> name]).err
    /\ mcpRegistry' =
           Register(mcpRegistry, name, [kind |-> "local", name |-> name]).reg
    /\ UNCHANGED <<mcpClient, mcpWire, mcpCalls, mcpRoutines, exceptMCP>>

\* MCPManager.ConnectClient: client.Connect, then adapter.RegisterTools
ConnectClient(r1, r2, order) ==
    /\ Len(mcpCalls) < MaxMCPCalls
    /\ IF mcpClient.connected
       THEN /\ mcpCalls' = Append(mcpCalls,
                   [op |-> "ConnectClient", replies |-> <<>>,
                    connectErr |-> TRUE, err |-> TRUE, client |-> mcpClient,
                    catalog |-> {}])
            /\ UNCHANGED <<mcpClient, mcpRegistry, mcpWire>>
       ELSE LET c == Connect(mcpClient, r1, r2)
                reg == IF c.err THEN [err |-> TRUE, reg |-> mcpRegistry]
                       ELSE RegisterTools(mcpRegistry, order)
            IN /\ ~c.err => order \in Orders(c.client.tools)
               /\ c.err => order = <<>>
               /\ ProtocolConnect(r1).err => r2 = TransportError
               /\ mcpClient' = c.client
               /\ mcpRegistry' = reg.reg
               /\ mcpWire' = mcpWire \o ConnectRequests(r1)
               /\ mcpCalls' = Append(mcpCalls,
                      [op |-> "ConnectClient",
                       replies |-> IF ProtocolConnect(r1).err THEN <<r1>>
                                   ELSE <<r1, r2>>,
                       connectErr |-> c.err, err |-> reg.err,
                       client |-> c.client, catalog |-> c.client.tools])
    /\ UNCHANGED <<mcpRoutines, exceptMCP>>

\* MCPManager.DisconnectClient: adapter.UnregisterTools, client.Disconnect
DisconnectClient ==
    /\ Len(mcpCalls) < MaxMCPCalls
    /\ mcpRegistry' = UnregisterTools(mcpRegistry, mcpClient.tools)
    /\ mcpClient' = IF mcpClient.connected
                    THEN [mcpClient EXCEPT !.connected = FALSE,
                                           !.initialized = FALSE,
                                           !.tools = {}]
                    ELSE mcpClient
    /\ mcpCalls' = Append(mcpCalls,
           [op |-> "DisconnectClient", replies |-> <<>>, connectErr |-> FALSE,
            err |-> FALSE, client |-> mcpClient', catalog |-> {}])
    /\ UNCHANGED <<mcpWire, mcpRoutines, exceptMCP>>

\* the text CallTool builds from the content of a result: every chunk of
\* type text, each followed by a newline
RECURSIVE ResultText(_)
ResultText(content) ==
    IF content = <<>> THEN <<>>
    ELSE (IF Head(content).type = "text" THEN Head(content).text \o <<NL>>
          ELSE <<>>) \o ResultText(Tail(content))

\* JSONRPCProtocol.CallTool: the ToolCall it returns (its error is always nil)
CallTool(name, reply) ==
    IF sendRequest(reply).err
    THEN [Name |-> name, Result |-> <<>>, Error |-> <<"request failed">>]
    ELSE IF reply.kind # "result"
    THEN [Name |-> name, Result |-> <<>>, Error |-> <<>>]
    ELSE IF reply.isError
    THEN [Name |-> name, Result |-> <<>>,
          Error |-> IF reply.content # <<>> THEN reply.content[1].text
                    ELSE <<"unknown error">>]
    ELSE [Name |-> name, Result |-> ResultText(reply.content),
          Error |-> <<>>]

\* MCPToolWrapper.Execute and MCPWrappedTool.Execute on the ToolCall that
\* ExecuteTool returned: the string and the error the caller gets
WrapperExecute(call) ==
    IF call.Error # <<>>
    THEN [err |-> TRUE, message |-> <<"tool execution failed: ">> \o call.Error,
          result |-> <<>>]
    ELSE [err |-> FALSE, message |-> <<>>, result |-> call.Result]

Busy == {r \in Routines : mcpRoutines[r].pc # "idle"}

\* goroutine r executes the registered tool key: MCPWrappedTool.Execute,
\* MCPToolWrapper.Execute, and MCPClient.ExecuteTool up to its RUnlock
ExecuteBegin(r, key) ==
    /\ mcpRoutines[r].pc = "idle"
    /\ Len(mcpCalls) + Cardinality(Busy) < MaxMCPCalls
    /\ key \in DOMAIN mcpRegistry
    /\ mcpRegistry[key].kind = "mcp"
    /\ IF /\ mcpClient.connected
          /\ mcpClient.initialized
          /\ mcpRegistry[key].name \in mcpClient.tools
       THEN /\ mcpRoutines' = [mcpRoutines EXCEPT ![r] =
                   [pc |-> "read", name |-> mcpRegistry[key].name,
                    key |-> key, protocol |-> mcpClient.protocol, read |-> 0]]
            /\ UNCHANGED mcpCalls
       ELSE /\ mcpCalls' = Append(mcpCalls,
                   [op |-> "Execute", key |-> key, sent |-> FALSE,
                    usable |-> mcpClient.connected /\ mcpClient.initialized,
                    reply |-> TransportError, err |-> TRUE,
                    message |-> <<"client not connected or tool not found">>,
                    result |-> <<>>])
            /\ UNCHANGED mcpRoutines
    /\ UNCHANGED <<mcpClient, mcpRegistry, mcpWire, exceptMCP>>

\* nextRequestID, p.requestID++: the load
NextRequestIDLoad(r) ==
    /\ mcpRoutines[r].pc = "read"
    /\ mcpRoutines' = [mcpRoutines EXCEPT ![r].pc = "send",
           ![r].read = mcpClient.requestID[mcpRoutines[r].protocol]]
    /\ UNCHANGED <<mcpClient, mcpRegistry, mcpWire, mcpCalls, exceptMCP>>

\* nextRequestID, p.requestID++: the store; then CallTool sends the request,
\* gets the reply, and the wrappers hand the outcome to the caller
CallToolSend(r, reply) ==
    /\ mcpRoutines[r].pc = "send"
    /\ LET rt == mcpRoutines[r]
           id == rt.read + 1
           out == WrapperExecute(CallTool(rt.name, reply))
       IN /\ mcpClient' = [mcpClient EXCEPT !.requestID[rt.protocol] = id]
          /\ mcpWire' = Append(mcpWire,
                               Request(id, "tools/call", rt.name, rt.key))
          /\ mcpCalls' = Append(mcpCalls,
                 [op |-> "Execute", key |-> rt.key, sent |-> TRUE,
                  usable |-> TRUE, reply |-> reply, err |-> out.err, message |-> out.message,
                  result |-> out.result])
    /\ mcpRoutines' = [mcpRoutines EXCEPT ![r] =
                          [pc |-> "idle", name |-> <<>>, read |-> 0]]
    /\ UNCHANGED <<mcpRegistry, exceptMCP>>

MCPNext ==
    \/ \E n \in LocalNames : RegisterLocal(n)
    \/ \E r1 \in InitializeReplies, r2 \in ListReplies,
          o \in UNION {Orders(S) : S \in SUBSET RemoteNames} :
              ConnectClient(r1, r2, o)
    \/ DisconnectClient
    \/ \E r \in Routines, k \in {Prefix \o t : t \in RemoteNames} :
          ExecuteBegin(r, k)
    \/ \E r \in Routines : NextRequestIDLoad(r)
    \/ \E r \in Routines, reply \in CallReplies : CallToolSend(r, reply)

SpecMCP == BusInit /\ [][MCPNext]_vars

(***************************************************************************)
(* Claims about the remote-tool client.                                    *)
(***************************************************************************)
Failed(reply) == reply.kind \in {"transport_error", "rpc_error"}

\* C23: a Connect that meets a failure at initialize or at tools/list, be
\* it a transport failure or a JSON-RPC reply with an error member, returns
\* an error and leaves the client disconnected with an empty tool catalog.
C23_FailedConnectRollsBack ==
    \A i \in DOMAIN mcpCalls :
        LET c == mcpCalls[i]
        IN (/\ c.op = "ConnectClient"
            /\ \E k \in DOMAIN c.replies : Failed(c.replies[k])) =>
               /\ c.connectErr
               /\ ~c.client.connected
               /\ c.client.tools = {}

\* the last call made to the manager was a ConnectClient that returned nil
ManagerConnected ==
    \E i \in DOMAIN mcpCalls :
        /\ mcpCalls[i].op = "ConnectClient"
        /\ ~mcpCalls[i].err
        /\ \A j \in DOMAIN mcpCalls :
              j > i => mcpCalls[j].op = "Execute"

\* C24: once the manager has connected the client, the registry holds under
\* the name prefix+T, for every tool T of the remote catalog, the tool that
\* wraps T; executing a registered remote tool of a connected client sends
\* a tools/call request, and every such request carries the name without
\* the prefix.
C24_PrefixedNameUnprefixedCall ==
    /\ ManagerConnected =>
          \A t \in mcpClient.tools :
              /\ Prefix \o t \in DOMAIN mcpRegistry
              /\ mcpRegistry[Prefix \o t] = [kind |-> "mcp", name |-> t]
    /\ \A i \in DOMAIN mcpCalls :
          (mcpCalls[i].op = "Execute" /\ mcpCalls[i].usable) =>
              mcpCalls[i].sent
    /\ \A k \in DOMAIN mcpWire :
          mcpWire[k].method = "tools/call" =>
              mcpWire[k].key = Prefix \o mcpWire[k].name

\* both remote tools are registered, one of them named like the other with
\* the prefix, and the tool registered for the latter has been executed
C24_Witness ==
    /\ ManagerConnected
    /\ mcpClient.tools = RemoteNames
    /\ \E k \in DOMAIN mcpWire :
          /\ mcpWire[k].method = "tools/call"
          /\ mcpWire[k].name = <<"mcp_", "ping">>

\* the texts of the chunks of type text
RECURSIVE Texts(_)
Texts(content) ==
    IF content = <<>> THEN <<>>
    ELSE (IF Head(content).type = "text" THEN <<Head(content).text>>
          ELSE <<>>) \o Texts(Tail(content))

\* texts joined with newline separators
RECURSIVE JoinLines(_)
JoinLines(texts) ==
    IF texts = <<>> THEN <<>>
    ELSE IF Len(texts) = 1 THEN texts[1]
    ELSE texts[1] \o <<NL>> \o JoinLines(Tail(texts))

\* C25: the string returned for a tools/call result is its text chunks
\* joined with newline separators ("pong" for the single chunk "pong"); a
\* result with isError set is reported as a failure whose message is the
\* first text chunk.
C25_ResultIsJoinedText ==
    \A i \in DOMAIN mcpCalls :
        LET c == mcpCalls[i]
        IN (c.op = "Execute" /\ c.sent /\ c.reply.kind = "result") =>
              IF c.reply.isError
              THEN /\ c.err
                   /\ Texts(c.reply.content) # <<>> =>
                         c.message = <<"tool execution failed: ">>
                                        \o Texts(c.reply.content)[1]
              ELSE /\ ~c.err
                   /\ c.result = JoinLines(Texts(c.reply.content))

\* C26: every request of the client carries an id greater than the id of
\* every request the client sent before it.
C26_RequestIDsIncrease ==
    \A i, j \in DOMAIN mcpWire : i < j => mcpWire[i].id < mcpWire[j].id

(***************************************************************************)
(* Complete of the OpenAI and Anthropic providers, which are the same loop *)
(* (src/internal/llm/openai.go:77-111, anthropic.go:62-96), with           *)
(* IsRetryableError (errors.go:68-84) and the Monitor (monitor.go:47-98).  *)
(* The outcome of each HTTP request is an input.                           *)
(***************************************************************************)
\* the codes HandleHTTPError gives to a status other than 200
ErrorCodes ==
    {"AUTH_ERROR", "RATE_LIMIT", "BAD_REQUEST", "NOT_FOUND", "CONTEXT_LENGTH",
     "SERVER_ERROR", "SERVICE_UNAVAILABLE", "TIMEOUT", "UNKNOWN"}

\* the outcomes of doRequest: a response, an *LLMError with one of the
\* codes, or an error that is no *LLMError (the request could not be sent,
\* the body could not be read or decoded)
Outcomes == {"ok", "not_llm_error"} \cup ErrorCodes

IsRetryableAlways(err) == err # "nil"

\* IsRetryableError: for an *LLMError the code decides; any other error is
\* compared with errors.Is to three sentinels it does not wrap
IsRetryableError(err) ==
    err \in {"RATE_LIMIT", "TIMEOUT", "SERVER_ERROR", "SERVICE_UNAVAILABLE"}

\* Monitor.RecordRequest(provider, latency, tokens, err)
RecordRequest(m, err) ==
    IF err = "nil"
    THEN [m EXCEPT !.TotalRequests = @ + 1, !.SuccessfulReqs = @ + 1]
    ELSE [m EXCEPT !.TotalRequests = @ + 1, !.FailedReqs = @ + 1]

\* Complete returns err to its caller, after RecordRequest(..., recorded)
CompleteReturn(requests, recorded, err) ==
    /\ llmMetrics' = RecordRequest(llmMetrics, recorded)
    /\ llmLog' = Append(llmLog,
           [requests |-> requests, err |-> err, before |-> llmMetrics,
            after |-> RecordRequest(llmMetrics, recorded)])
    /\ llmCall' = NoCall

\* Complete(ctx, req) begins: rateLimiter.Wait() has let it through
CompleteBegin ==
    /\ llmCall.pc = "idle"
    /\ Len(llmLog) < MaxCompletes
    /\ llmCall' = [NoCall EXCEPT !.pc = "request"]
    /\ UNCHANGED <<llmMetrics, llmLog, exceptLLM>>

\* attempt > 0: case <-time.After(time.Duration(attempt) * time.Second)
RetryWait ==
    /\ llmCall.pc = "wait"
    /\ llmCall' = [llmCall EXCEPT !.pc = "request", !.waited = llmCall.attempt]
    /\ UNCHANGED <<llmMetrics, llmLog, exceptLLM>>

\* attempt > 0: case <-ctx.Done(): the call records ctx.Err() and returns it
RetryCancelled ==
    /\ llmCall.pc = "wait"
    /\ CompleteReturn(llmCall.requests, "ctx", "ctx")
    /\ UNCHANGED exceptLLM

\* resp, err := p.doRequest(ctx, req) with outcome out, and what the loop
\* does with it
DoRequest(out) ==
    /\ llmCall.pc = "request"
    /\ LET reqs == Append(llmCall.requests,
                          [outcome |-> out, waited |-> llmCall.waited])
       IN IF out = "ok"
          THEN CompleteReturn(reqs, "nil", "nil")
          ELSE IF IsRetryableError(out) /\ llmCall.attempt + 1 < MaxRetries
          THEN /\ llmCall' = [llmCall EXCEPT !.pc = "wait", !.attempt = @ + 1,
                                             !.waited = 0, !.lastErr = out,
                                             !.requests = reqs]
               /\ UNCHANGED <<llmMetrics, llmLog>>
          ELSE CompleteReturn(reqs, out, out)
    /\ UNCHANGED exceptLLM

LLMNext ==
    \/ CompleteBegin
    \/ RetryWait
    \/ RetryCancelled
    \/ \E out \in Outcomes : DoRequest(out)

SpecLLM == BusInit /\ [][LLMNext]_vars

\* the requests of the call in progress and of the calls that returned
RequestLists ==
    {llmCall.requests} \cup {llmLog[i].requests : i \in DOMAIN llmLog}

\* C27: a Complete call makes at most 3 requests; a request after the first
\* is made only when the one before it failed with a retryable code, and
\* after a wait of as many seconds as the number of the attempt; a call
\* whose request fails with an authentication, bad-request, context-length
\* or not-found code makes no further request and returns that error.
C27_RetryOnlyRetryable ==
    /\ \A reqs \in RequestLists :
          /\ Len(reqs) <= 3
          /\ \A k \in DOMAIN reqs :
                k > 1 =>
                    /\ reqs[k - 1].outcome \in
                          {"RATE_LIMIT", "TIMEOUT", "SERVER_ERROR",
                           "SERVICE_UNAVAILABLE"}
                    /\ reqs[k].waited = k - 1
          /\ \A k \in DOMAIN reqs :
                reqs[k].outcome \in {"AUTH_ERROR", "BAD_REQUEST",
                                     "CONTEXT_LENGTH", "NOT_FOUND"} =>
                    k = Len(reqs)
    /\ \A i \in DOMAIN llmLog :
          LET last == llmLog[i].requests[Len(llmLog[i].requests)].outcome
          IN last \in {"AUTH_ERROR", "BAD_REQUEST", "CONTEXT_LENGTH",
                       "NOT_FOUND"} => llmLog[i].err = last

\* a call has returned the response of its third request, made after two
\* requests that failed with retryable codes
C27_Witness ==
    \E i \in DOMAIN llmLog :
        /\ Len(llmLog[i].requests) = 3
        /\ llmLog[i].requests[3].outcome = "ok"
        /\ llmLog[i].requests[1].outcome = "TIMEOUT"
        /\ llmLog[i].requests[2].outcome = "SERVER_ERROR"
        /\ llmLog[i].requests[3].waited = 2
        /\ llmLog[i].err = "nil"

\* C28: a Complete call that fails twice with rate-limit and succeeds on
\* its third attempt returns the response and raises the monitor's request
\* total by three, its failures by two and its successes by one.
C28_MetricsCountAttempts ==
    \A i \in DOMAIN llmLog :
        LET c == llmLog[i]
        IN (/\ Len(c.requests) = 3
            /\ c.requests[1].outcome = "RATE_LIMIT"
            /\ c.requests[2].outcome = "RATE_LIMIT"
            /\ c.requests[3].outcome = "ok") =>
               /\ c.err = "nil"
               /\ c.after.TotalRequests = c.before.TotalRequests + 3
               /\ c.after.FailedReqs = c.before.FailedReqs + 2
               /\ c.after.SuccessfulReqs = c.before.SuccessfulReqs + 1

(***************************************************************************)
(* The skill registry and its inverted index (SpecSkills).                 *)
(*                                                                         *)
(* A text is a sequence of words, the fields strings.Fields finds in it.   *)
(* A Skill object lives on the heap under a pointer; the registry and the  *)
(* index hold pointers, so a change made to an object from outside is seen *)
(* by both.  Content is empty in every skill of the model.                 *)
(***************************************************************************)
Pointers == {"o1", "o2"}
SkillIDs == {"s1", "s2"}
\* the names and descriptions a skill can carry; the empty name is rejected
SkillNames == {<<>>, <<"go">>, <<"Go", "the", "db">>}
Descriptions == {<<>>, <<"go", "db.">>}
\* Tags as a parsed document gives them: nothing removes a repeated tag
TagLists == {<<>>, <<"db">>, <<"ai", "ai">>}
SkillTags == {"ai", "db"}
Categories == {"", "dev"}
\* the queries and user messages put to the registry and the selector
Queries == {"go", "Go", "db", "ai", "dev", "the", "x"}
Messages == {<<"go", "ai">>, <<"the", "db">>}

\* strings.ToLower, on the words of the model
ToLower(w) == IF w = "Go" THEN "go" ELSE w

\* strings.Trim(word, ".,!?;:'\"()[]{}"), on the words of the model
TrimPunct(w) == IF w = "db." THEN "db" ELSE w

\* len(word), on the words of the model
WordLen(w) ==
    CASE w = "x" -> 1
      [] w \in {"go", "Go", "db", "ai"} -> 2
      [] w \in {"the", "dev", "db."} -> 3
      [] OTHER -> 0

\* the stopWords of extractKeywords that the model's words can meet
StopWords == {"a", "an", "the", "and", "or"}

RECURSIVE extractFrom(_, _)
\* the loop of extractKeywords over the words, keywords being those kept
extractFrom(words, keywords) ==
    IF words = <<>> THEN keywords
    ELSE LET word == TrimPunct(ToLower(Head(words)))
             skip == \/ WordLen(word) < 2
                     \/ word \in StopWords
                     \/ \E i \in DOMAIN keywords : keywords[i] = word
         IN extractFrom(Tail(words), IF skip THEN keywords
                                     ELSE Append(keywords, word))

\* extractKeywords(text)
extractKeywords(text) == extractFrom(text, <<>>)

\* strings.Contains(strings.ToLower(s), sub) for one word s
WordContains(s, sub) ==
    \/ sub = ""
    \/ ToLower(s) = sub
    \/ ToLower(s) = "db." /\ sub = "db"

\* strings.Contains(strings.ToLower(text), sub) for a text and a word sub
StringsContains(text, sub) ==
    \/ sub = ""
    \/ \E i \in DOMAIN text : WordContains(text[i], sub)

\* the skill a pointer leads to
SkillAt(objs, p) == objs[p]

\* append(m[key], p), a missing key holding the nil slice
AppendAt(m, key, p) ==
    MapPut(m, key, Append(IF key \in DOMAIN m THEN m[key] ELSE <<>>, p))

RECURSIVE AppendAll(_, _, _)
\* for _, key := range keys { m[key] = append(m[key], p) }
AppendAll(m, keys, p) ==
    IF keys = <<>> THEN m
    ELSE AppendAll(AppendAt(m, Head(keys), p), Tail(keys), p)

\* SkillIndex.Add(skill)
IndexAdd(idx, objs, p) ==
    LET skill == SkillAt(objs, p)
    IN [byName |-> MapPut(idx.byName, skill.ID, p),
        byTag |-> AppendAll(idx.byTag, skill.Tags, p),
        byCategory |-> IF skill.Category # ""
                       THEN AppendAt(idx.byCategory, skill.Category, p)
                       ELSE idx.byCategory,
        byKeyword |-> AppendAll(idx.byKeyword,
                         extractKeywords(skill.Name \o skill.Description), p)]

\* the positions of a list whose skill has the ID
Holding(objs, list, skillID) ==
    {i \in DOMAIN list : SkillAt(objs, list[i]).ID = skillID}

\* the list without its position i
Without(list, i) == SubSeq(list, 1, i - 1) \o SubSeq(list, i + 1, Len(list))

\* the inner loop of Remove for one key: the first entry with the ID goes,
\* and the key with it when its list becomes empty
RemoveAt(m, objs, key, skillID) ==
    IF key \notin DOMAIN m \/ Holding(objs, m[key], skillID) = {} THEN m
    ELSE LET i == CHOOSE x \in Holding(objs, m[key], skillID) :
                      \A y \in Holding(objs, m[key], skillID) : x <= y
             rest == Without(m[key], i)
         IN IF rest = <<>> THEN MapDelete(m, key) ELSE MapPut(m, key, rest)

RECURSIVE RemoveAll(_, _, _, _)
\* for _, key := range keys { ... } of Remove
RemoveAll(m, objs, keys, skillID) ==
    IF keys = <<>> THEN m
    ELSE RemoveAll(RemoveAt(m, objs, Head(keys), skillID), objs, Tail(keys),
                   skillID)

\* SkillIndex.Remove(skillID): the terms are those the object under byName
\* carries now
IndexRemove(idx, objs, skillID) ==
    IF skillID \notin DOMAIN idx.byName THEN idx
    ELSE LET skill == SkillAt(objs, idx.byName[skillID])
         IN [byName |-> MapDelete(idx.byName, skillID),
             byTag |-> RemoveAll(idx.byTag, objs, skill.Tags, skillID),
             byCategory |-> IF skill.Category # ""
                            THEN RemoveAt(idx.byCategory, objs,
                                          skill.Category, skillID)
                            ELSE idx.byCategory,
             byKeyword |-> RemoveAll(idx.byKeyword, objs,
                              extractKeywords(skill.Name \o skill.Description),
                              skillID)]

\* the enabled skills of m[key], in order
EnabledAt(m, objs, key) ==
    IF key \notin DOMAIN m THEN <<>>
    ELSE SelectSeq(m[key], LAMBDA p : SkillAt(objs, p).Enabled)

\* SkillIndex.GetByTag(tag)
IndexGetByTag(idx, objs, tag) == EnabledAt(idx.byTag, objs, tag)

\* SkillIndex.GetByCategory(category)
IndexGetByCategory(idx, objs, category) ==
    EnabledAt(idx.byCategory, objs, category)

\* the enabled entries of a list that carry the ID
Scoring(m, objs, key, skillID) ==
    Cardinality({i \in DOMAIN EnabledAt(m, objs, key) :
                    SkillAt(objs, EnabledAt(m, objs, key)[i]).ID = skillID})

\* scoreMap[id] of Search in hundredths: per keyword of the query, 1.0 for
\* each keyword entry, 2.0 for each tag entry and 1.5 for each category
\* entry found under the whole query
SearchScore(idx, objs, query, skillID) ==
    LET q == ToLower(query)
        keywords == extractKeywords(<<q>>)
        each(keyword) == 100 * Scoring(idx.byKeyword, objs, keyword, skillID)
                         + 200 * Scoring(idx.byTag, objs, q, skillID)
                         + 150 * Scoring(idx.byCategory, objs, q, skillID)
    IN IF keywords = <<>> THEN 0 ELSE each(keywords[1])

\* SkillIndex.Search(query) for a query of one word: the skills byName holds
\* for the IDs that scored (the result order is that of a map iteration)
IndexSearch(idx, objs, query) ==
    {idx.byName[id] : id \in {x \in DOMAIN idx.byName :
                                  SearchScore(idx, objs, query, x) > 0}}

\* SkillRegistry.Get(id): the pointer, or "nil" with exists false
RegistryGet(reg, id) == IF id \in DOMAIN reg THEN reg[id] ELSE "nil"

\* SkillRegistry.List(): the enabled skills (in the order of a map iteration)
RegistryList(reg, objs) ==
    {reg[id] : id \in {x \in DOMAIN reg : SkillAt(objs, reg[x]).Enabled}}

\* SkillRegistry.ListAll()
RegistryListAll(reg) == MapValues(reg)

\* SkillRegistry.Count()
RegistryCount(reg, objs) ==
    Cardinality({id \in DOMAIN reg : SkillAt(objs, reg[id]).Enabled})

\* SkillRegistry.CountAll()
RegistryCountAll(reg) == Cardinality(DOMAIN reg)

\* calculateKeywordScore(skill, keywords, message) in hundredths
calculateKeywordScore(skill, keywords, message) ==
    LET hits(text) ==
            Cardinality({i \in DOMAIN keywords :
                            StringsContains(text, keywords[i])})
        tagHits ==
            Cardinality({ij \in (DOMAIN keywords) \X (DOMAIN skill.Tags) :
                            WordContains(skill.Tags[ij[2]], keywords[ij[1]])})
        named ==
            Cardinality({j \in DOMAIN skill.Tags :
                            StringsContains(message, ToLower(skill.Tags[j]))})
        score == 30 * hits(skill.Name) + 20 * hits(skill.Description)
                 + 15 * tagHits + 10 * hits(<<skill.Category>>)
                 + 25 * named
    IN IF score < 100 THEN score ELSE 100

\* candidates[i], candidates[j] = candidates[j], candidates[i]
Swap(c, i, j) == [c EXCEPT ![i] = c[j], ![j] = c[i]]

RECURSIVE rankInner(_, _, _)
\* for j := i + 1; j < len(candidates); j++ of rankAndFilter
rankInner(c, i, j) ==
    IF j > Len(c) THEN c
    ELSE rankInner(IF c[i].Score < c[j].Score THEN Swap(c, i, j) ELSE c,
                   i, j + 1)

RECURSIVE rankOuter(_, _)
\* for i := 0; i < len(candidates); i++ of rankAndFilter
rankOuter(c, i) ==
    IF i > Len(c) THEN c ELSE rankOuter(rankInner(c, i, i + 1), i + 1)

\* rankAndFilter(candidates): the skills, best first, at most maxSkills
rankAndFilter(candidates, maxActive) ==
    LET ranked == rankOuter(candidates, 1)
        maxSkills == IF maxActive <= 0 THEN 5 ELSE maxActive
        kept == IF Len(ranked) > maxSkills THEN SubSeq(ranked, 1, maxSkills)
                ELSE ranked
    IN [i \in DOMAIN kept |-> kept[i].Skill]

\* selectByKeyword(userMessage), List() having returned the skills in order
\* and config.MaxActive being maxActive
selectByKeyword(objs, order, userMessage, maxActive) ==
    LET keywords == extractKeywords(userMessage)
        scored == [i \in DOMAIN order |->
                      [Skill |-> order[i],
                       Score |-> calculateKeywordScore(SkillAt(objs, order[i]),
                                                       keywords, userMessage)]]
    IN rankAndFilter(SelectSeq(scored, LAMBDA c : c.Score >= Threshold),
                     maxActive)

InSeq(list, p) == \E i \in DOMAIN list : list[i] = p

\* the results a skill object appears in: List, Search, GetByTag,
\* GetByCategory and the keyword selection (whatever order List returns)
Visible(objs, reg, idx, p) ==
    {<<"List", "">> : x \in {y \in {p} : y \in RegistryList(reg, objs)}}
    \cup {<<"Search", q>> : q \in {x \in Queries :
                                      p \in IndexSearch(idx, objs, x)}}
    \cup {<<"GetByTag", t>> : t \in {x \in SkillTags :
                                 InSeq(IndexGetByTag(idx, objs, x), p)}}
    \cup {<<"GetByCategory", c>> : c \in {x \in Categories :
                                 InSeq(IndexGetByCategory(idx, objs, x), p)}}
    \cup {<<"Select", m>> : m \in {x \in Messages :
             \A order \in Orders(RegistryList(reg, objs)) :
                 InSeq(selectByKeyword(objs, order, x, MaxActive), p)}}

\* what a registry call leaves alone
skillRest == <<busVars, busHist, exceptSkills>>

\* the pointer the next allocation returns
NextPointer == IF skObjs = <<>> THEN "o1" ELSE "o2"

\* a Skill object is made, as ParseContent fills it from a document: the
\* name "go", the category "dev", Enabled at its default; the other values
\* of these fields come from later assignments.  The first document is the
\* one whose path gives the ID "s1".
NewObject(id, tags) ==
    /\ DOMAIN skObjs # Pointers
    /\ skObjs = <<>> => id = "s1"
    /\ skObjs' = MapPut(skObjs, NextPointer,
                        [ID |-> id, Name |-> <<"go">>, Description |-> <<>>,
                         Tags |-> tags, Category |-> "dev",
                         Enabled |-> TRUE])
    /\ UNCHANGED <<skRegistry, skIndex, skLast, skBudget, skillRest>>

\* the objects that differ from a skill in one field other than ID
Variants(skill) ==
    {[skill EXCEPT !.Name = n] : n \in SkillNames}
    \cup {[skill EXCEPT !.Description = d] : d \in Descriptions}
    \cup {[skill EXCEPT !.Tags = t] : t \in TagLists}
    \cup {[skill EXCEPT !.Category = c] : c \in Categories}
    \cup {[skill EXCEPT !.Enabled = b] : b \in BOOLEAN}

\* a holder of the pointer assigns to a field of the object, registered or
\* not (skill.Enabled = false, skill.Tags = ...)
OutsideChange(p, changed) ==
    /\ p \in DOMAIN skObjs
    /\ skBudget.muts < MaxMutations
    /\ changed \in Variants(skObjs[p]) \ {skObjs[p]}
    /\ skObjs' = [skObjs EXCEPT ![p] = changed]
    /\ skLast' = [op |-> "change"]
    /\ skBudget' = [skBudget EXCEPT !.muts = @ + 1]
    /\ UNCHANGED <<skRegistry, skIndex, skillRest>>

CanCall == skBudget.ops < MaxSkillOps
Called == [skBudget EXCEPT !.ops = @ + 1]

\* SkillRegistry.Register(skill)
RegistryRegister(p) ==
    /\ CanCall
    /\ p \in DOMAIN skObjs
    /\ LET skill == SkillAt(skObjs, p)
           exists == skill.ID \in DOMAIN skRegistry
           purged == IF exists THEN IndexRemove(skIndex, skObjs, skill.ID)
                     ELSE skIndex
       IN IF skill.Name = <<>>
          THEN /\ skLast' = [op |-> "Register", id |-> skill.ID, obj |-> p,
                             err |-> TRUE, existed |-> exists]
               /\ UNCHANGED <<skRegistry, skIndex>>
          ELSE /\ skRegistry' = MapPut(skRegistry, skill.ID, p)
               /\ skIndex' = IndexAdd(purged, skObjs, p)
               /\ skLast' = [op |-> "Register", id |-> skill.ID, obj |-> p,
                             err |-> FALSE, existed |-> exists]
    /\ skBudget' = Called
    /\ UNCHANGED <<skObjs, skillRest>>

\* what the results showed of a skill just before a call
Seen(p) ==
    [visible |-> Visible(skObjs, skRegistry, skIndex, p),
     count |-> RegistryCount(skRegistry, skObjs),
     countAll |-> RegistryCountAll(skRegistry),
     enabled |-> SkillAt(skObjs, p).Enabled]

\* SkillRegistry.Disable(skillID)
RegistryDisable(id) ==
    /\ CanCall
    /\ IF id \notin DOMAIN skRegistry
       THEN /\ skLast' = [op |-> "Disable", id |-> id, err |-> TRUE]
            /\ UNCHANGED <<skObjs, skIndex>>
       ELSE LET p == skRegistry[id]
                objs == [skObjs EXCEPT ![p].Enabled = FALSE]
            IN /\ skObjs' = objs
               /\ skIndex' = IndexRemove(skIndex, objs, id)
               /\ skLast' = [op |-> "Disable", id |-> id, err |-> FALSE,
                             obj |-> p, before |-> Seen(p)]
    /\ skBudget' = Called
    /\ UNCHANGED <<skRegistry, skillRest>>

\* the call before this one was a Disable of the same skill that succeeded
FollowsDisable(id) ==
    /\ skLast.op = "Disable"
    /\ skLast.id = id
    /\ ~skLast.err

\* SkillRegistry.Enable without its r.index.Add(skill)
RegistryEnableNoAdd(id) ==
    /\ CanCall
    /\ IF id \notin DOMAIN skRegistry
       THEN /\ skLast' = [op |-> "Enable", id |-> id, err |-> TRUE]
            /\ UNCHANGED <<skObjs, skIndex>>
       ELSE LET p == skRegistry[id]
                objs == [skObjs EXCEPT ![p].Enabled = TRUE]
            IN /\ skObjs' = objs
               /\ skIndex' = IndexRemove(skIndex, objs, id)
               /\ skLast' = [op |-> "Enable", id |-> id, err |-> FALSE,
                             obj |-> p, follows |-> FollowsDisable(id),
                             before |-> IF FollowsDisable(id)
                                        THEN skLast.before ELSE Seen(p)]
    /\ skBudget' = Called
    /\ UNCHANGED <<skRegistry, skillRest>>

\* SkillRegistry.Enable(skillID)
RegistryEnable(id) ==
    /\ CanCall
    /\ IF id \notin DOMAIN skRegistry
       THEN /\ skLast' = [op |-> "Enable", id |-> id, err |-> TRUE]
            /\ UNCHANGED <<skObjs, skIndex>>
       ELSE LET p == skRegistry[id]
                objs == [skObjs EXCEPT ![p].Enabled = TRUE]
            IN /\ skObjs' = objs
               /\ skIndex' = IndexAdd(IndexRemove(skIndex, objs, id), objs, p)
               /\ skLast' = [op |-> "Enable", id |-> id, err |-> FALSE,
                             obj |-> p, follows |-> FollowsDisable(id),
                             before |-> IF FollowsDisable(id)
                                        THEN skLast.before ELSE Seen(p)]
    /\ skBudget' = Called
    /\ UNCHANGED <<skRegistry, skillRest>>

SkillsNext ==
    \/ \E id \in SkillIDs, tags \in TagLists : NewObject(id, tags)
    \/ \E p \in Pointers :
          \E changed \in [ID : SkillIDs, Name : SkillNames,
                          Description : Descriptions, Tags : TagLists,
                          Category : Categories, Enabled : BOOLEAN] :
              OutsideChange(p, changed)
    \/ \E p \in Pointers : RegistryRegister(p)
    \/ \E id \in SkillIDs : RegistryDisable(id)
    \/ \E id \in SkillIDs : RegistryEnable(id)

SpecSkills == BusInit /\ [][SkillsNext]_vars

\* how many entries of m[key] carry the ID
Entries(m, key, skillID) ==
    IF key \in DOMAIN m
    THEN Cardinality(Holding(skObjs, m[key], skillID)) ELSE 0

\* the terms a skill is to be listed under
TermsOf(list) == {list[i] : i \in DOMAIN list}

\* the skill with the ID is listed once under each term of terms and under
\* no other key of m
ListedOnceUnder(m, terms, skillID) ==
    /\ \A key \in terms : Entries(m, key, skillID) = 1
    /\ \A key \in DOMAIN m \ terms : Entries(m, key, skillID) = 0

\* C29: after Register of a skill whose ID was registered already, the
\* registry holds the new skill under that ID, and the index lists the ID
\* exactly once under each tag, the category and each keyword of the new
\* version and under no other term, whatever the old and new fields were.
C29_ReRegisterRebuildsIndex ==
    (skLast.op = "Register" /\ ~skLast.err /\ skLast.existed) =>
        LET skill == SkillAt(skObjs, skLast.obj)
        IN /\ RegistryGet(skRegistry, skLast.id) = skLast.obj
           /\ skIndex.byName[skLast.id] = skLast.obj
           /\ ListedOnceUnder(skIndex.byTag, TermsOf(skill.Tags), skLast.id)
           /\ ListedOnceUnder(skIndex.byCategory, {skill.Category} \ {""},
                              skLast.id)
           /\ ListedOnceUnder(skIndex.byKeyword,
                 TermsOf(extractKeywords(skill.Name \o skill.Description)),
                 skLast.id)

Methods == {"keyword", "llm", "hybrid"}
\* config.MaxActive: left unset, or one
MaxActives == {0, 1}
\* what the provider answers to the selection prompt: Complete fails, the
\* content holds no JSON object, or it names skills by ID
LLMReplies ==
    {[kind |-> "error"], [kind |-> "text"]}
    \cup {[kind |-> "json", ids |-> ids] :
             ids \in {<<>>, <<"s1">>, <<"s2", "s1">>, <<"s9">>}}

Selected(skills) == [skills |-> skills, err |-> FALSE]
SelectFailed == [skills |-> <<>>, err |-> TRUE]

RECURSIVE Resolve(_, _)
\* the loop of parseLLMResponse: registry.Get for each skill_id, in order
Resolve(reg, ids) ==
    IF ids = <<>> THEN <<>>
    ELSE (IF RegistryGet(reg, Head(ids)) # "nil"
          THEN <<RegistryGet(reg, Head(ids))>> ELSE <<>>)
         \o Resolve(reg, Tail(ids))

\* parseLLMResponse(content)
parseLLMResponse(reg, reply) ==
    IF reply.kind = "json" THEN Selected(Resolve(reg, reply.ids))
    ELSE SelectFailed

\* selectByLLM(ctx, userMessage)
selectByLLM(cfg, objs, reg, order, userMessage, reply) ==
    IF ~cfg.llm
    THEN Selected(selectByKeyword(objs, order, userMessage, cfg.MaxActive))
    ELSE IF order = <<>> THEN Selected(<<>>)
    ELSE IF reply.kind = "error" THEN SelectFailed
    ELSE parseLLMResponse(reg, reply)

\* selectHybrid(ctx, userMessage)
selectHybrid(cfg, objs, reg, order, userMessage, reply) ==
    LET keywordResults ==
            selectByKeyword(objs, order, userMessage, cfg.MaxActive)
        llmResults == selectByLLM(cfg, objs, reg, order, userMessage, reply)
    IN IF Len(keywordResults) > 0 /\ Len(keywordResults) <= cfg.MaxActive
       THEN Selected(keywordResults)
       ELSE IF cfg.llm /\ ~llmResults.err /\ Len(llmResults.skills) > 0
       THEN llmResults
       ELSE Selected(keywordResults)

\* Select(ctx, userMessage): List() returns the enabled skills in order
\* each time it is called
Select(cfg, objs, reg, order, userMessage, reply) ==
    CASE cfg.Method = "keyword" ->
            Selected(selectByKeyword(objs, order, userMessage, cfg.MaxActive))
      [] cfg.Method = "llm" ->
            selectByLLM(cfg, objs, reg, order, userMessage, reply)
      [] OTHER -> selectHybrid(cfg, objs, reg, order, userMessage, reply)

selRest == <<busVars, busHist, exceptSel>>

\* the registry is filled before the selector is used
BeforeSelect == selCalls = {}

FillNewObject(id, tags) == BeforeSelect /\ NewObject(id, tags)
FillRegister(p) == BeforeSelect /\ RegistryRegister(p)
FillDisable(id) == BeforeSelect /\ RegistryDisable(id)

\* NewSkillSelector(registry, llm, config)
NewSkillSelector(method, maxActive, llm) ==
    /\ ~selCfg.made
    /\ selCfg' = [made |-> TRUE, Method |-> method, MaxActive |-> maxActive,
                  llm |-> llm]
    /\ UNCHANGED <<selCalls, skillVars, selRest>>

\* a Select call returns
SelectCall(userMessage, order, reply) ==
    /\ selCfg.made
    /\ Cardinality(selCalls) < MaxSelects
    /\ order \in Orders(RegistryList(skRegistry, skObjs))
    /\ selCalls' = selCalls \cup
          {[msg |-> userMessage,
            result |-> Select(selCfg, skObjs, skRegistry, order, userMessage,
                              reply)]}
    /\ UNCHANGED <<selCfg, skillVars, selRest>>

SelectNext ==
    \/ \E id \in SkillIDs, tags \in TagLists : FillNewObject(id, tags)
    \/ \E p \in Pointers : FillRegister(p)
    \/ \E id \in SkillIDs : FillDisable(id)
    \/ \E method \in Methods, maxActive \in MaxActives, llm \in BOOLEAN :
          NewSkillSelector(method, maxActive, llm)
    \/ \E userMessage \in Messages, reply \in LLMReplies,
          order \in Orders(RegistryList(skRegistry, skObjs)) :
              SelectCall(userMessage, order, reply)

SpecSelect == BusInit /\ [][SelectNext]_vars

\* C31: in keyword mode, two Select calls with the same message on the same
\* registry and configuration return the same skills in the same order.
C31_KeywordSelectIsFunction ==
    (selCfg.made /\ selCfg.Method = "keyword") =>
        \A a, b \in selCalls : a.msg = b.msg => a.result = b.result

\* C40: whatever the mode and whatever the provider answered, every skill a
\* Select call returned is enabled.
C40_SelectReturnsEnabledOnly ==
    \A c \in selCalls :
        \A i \in DOMAIN c.result.skills :
            SkillAt(skObjs, c.result.skills[i]).Enabled

(***************************************************************************)
(* The skill file watcher (SpecWatcher): a directory of skill files, the   *)
(* events fsnotify sends for it, the debounce of handleFileEvent, the      *)
(* goroutines that sleep 500 ms before they process an event, and          *)
(* LoadFromDirectory / ReloadDirectory.  The registry is the map of        *)
(* skills by ID; every Parse makes a new Skill, so the index plays no part.*)
(***************************************************************************)
\* the directory listing, in the order filepath.Walk gives it
DirOrder == <<"a.md", "ab.md", "n.txt">>
Paths == {DirOrder[i] : i \in DOMAIN DirOrder}
\* what a file holds: two versions of a valid skill document, or a document
\* ParseContent rejects (no front matter, or no name or description)
FileContents == {"v1", "v2", "bad"}

\* strings.HasSuffix(strings.ToLower(name), ".md")
IsMarkdown(path) == path \in {"a.md", "ab.md"}

\* strings.TrimSuffix(filepath.Base(path), filepath.Ext(path)), as letters
BaseWithoutExt(path) ==
    CASE path = "a.md" -> <<"a">>
      [] path = "ab.md" -> <<"a", "b">>
      [] OTHER -> <<"n">>

\* hex.EncodeToString(sha256.Sum256(path))[:8]: one value per path
HashOf(path) ==
    CASE path = "a.md" -> "h1"
      [] path = "ab.md" -> "h2"
      [] OTHER -> "h3"

\* generateSkillID(path): base name, "-", hash
generateSkillID(path) == BaseWithoutExt(path) \o <<"-", HashOf(path)>>

\* strings.HasPrefix(s, prefix)
HasPrefix(s, prefix) ==
    /\ Len(prefix) <= Len(s)
    /\ SubSeq(s, 1, Len(prefix)) = prefix

ParseError == [err |-> TRUE]

\* SkillParser.Parse(ctx, path): the file is read and ParseContent applied
ParseFile(files, path) ==
    IF path \notin DOMAIN files \/ files[path] = "bad" THEN ParseError
    ELSE [err |-> FALSE,
          skill |-> [ID |-> generateSkillID(path), Path |-> path,
                     Content |-> files[path]]]

RECURSIVE ParseFrom(_, _, _)
\* the loop of ParseDirectory over the listing: the first file that does
\* not parse ends it with an error
ParseFrom(files, listing, skills) ==
    IF listing = <<>> THEN [err |-> FALSE, skills |-> skills]
    ELSE IF ~IsMarkdown(Head(listing)) \/ Head(listing) \notin DOMAIN files
    THEN ParseFrom(files, Tail(listing), skills)
    ELSE IF ParseFile(files, Head(listing)).err THEN ParseError
    ELSE ParseFrom(files, Tail(listing),
                   Append(skills, ParseFile(files, Head(listing)).skill))

\* SkillParser.ParseDirectory(ctx, dir)
ParseDirectory(files) == ParseFrom(files, DirOrder, <<>>)

RECURSIVE RegisterEach(_, _)
\* for _, skill := range skills { registry.Register(skill) }
RegisterEach(reg, skills) ==
    IF skills = <<>> THEN reg
    ELSE RegisterEach(MapPut(reg, Head(skills).ID, Head(skills)),
                      Tail(skills))

watchRest == <<busVars, busHist, exceptWatch>>

CanOperate == wHist.ops < MaxFileOps

\* the event fsnotify queues for a path, when the directory is watched
Queued(path, op) ==
    IF wWatcher.watching THEN Append(wEvents, [Name |-> path, Op |-> op])
    ELSE wEvents

\* WatchDirectory(dir): the directory is added and processEvents started
WatchDirectory ==
    /\ ~wWatcher.watching
    /\ wWatcher' = [wWatcher EXCEPT !.watching = TRUE]
    /\ UNCHANGED <<wFiles, wSkills, wEvents, wSleepers, wNow, wHist,
                   watchRest>>

\* a program writes a file of the directory: Create for a new file, Write
\* for one that was there
FileWrite(path, content) ==
    /\ CanOperate
    /\ wFiles' = MapPut(wFiles, path, content)
    /\ LET op == IF path \in DOMAIN wFiles THEN "Write" ELSE "Create"
       IN /\ wEvents' = Queued(path, op)
          /\ wHist' = [wHist EXCEPT
                          !.ops = @ + 1,
                          !.lastEvent = IF wWatcher.watching
                                        THEN MapPut(@, path, op) ELSE @]
    /\ UNCHANGED <<wSkills, wWatcher, wSleepers, wNow, watchRest>>

\* a program removes a file, or renames it to a place outside the directory
FileRemove(path, op) ==
    /\ CanOperate
    /\ path \in DOMAIN wFiles
    /\ op \in {"Remove", "Rename"}
    /\ wFiles' = MapDelete(wFiles, path)
    /\ wEvents' = Queued(path, op)
    /\ wHist' = [wHist EXCEPT
                    !.ops = @ + 1,
                    !.lastEvent = IF wWatcher.watching
                                  THEN MapPut(@, path, op) ELSE @]
    /\ UNCHANGED <<wSkills, wWatcher, wSleepers, wNow, watchRest>>

\* time passes
WatchTick ==
    /\ wNow < MaxWatchNow
    /\ wNow' = wNow + 1
    /\ UNCHANGED <<wFiles, wSkills, wEvents, wWatcher, wSleepers, wHist,
                   watchRest>>

\* shouldProcessEvent(event)
shouldProcessEvent(event) ==
    /\ IsMarkdown(event.Name)
    /\ event.Op \in {"Write", "Create", "Remove", "Rename"}

\* the event is dropped by the debounce of handleFileEvent
Debounced(event) ==
    /\ event.Name \in DOMAIN wWatcher.debounce
    /\ wNow - wWatcher.debounce[event.Name] < DebounceTicks

\* processEvents receives an event; handleFileEvent drops it or notes the
\* time and starts the goroutine that sleeps before processFileChange
ReceiveEvent ==
    /\ wEvents # <<>>
    /\ wEvents' = Tail(wEvents)
    /\ LET event == Head(wEvents)
       IN IF ~shouldProcessEvent(event) \/ Debounced(event)
          THEN UNCHANGED <<wWatcher, wSleepers>>
          ELSE /\ wWatcher' = [wWatcher EXCEPT
                                  !.debounce = MapPut(@, event.Name, wNow)]
               /\ wSleepers' = wSleepers \cup
                     {[event |-> event, wake |-> wNow + DebounceTicks]}
    /\ UNCHANGED <<wFiles, wSkills, wNow, wHist, watchRest>>

\* the skills handleFileRemoval can unregister: the first of ListAll() whose
\* ID begins with the file's base name, ListAll() being in map order
Removable(reg, path) ==
    {id \in DOMAIN reg : HasPrefix(id, BaseWithoutExt(path))}

\* handleFileRemoval(path), the loop having stopped at the skill id
handleFileRemoval(reg, id) == MapDelete(reg, id)

\* handleFileUpdate(path)
handleFileUpdate(reg, files, path) ==
    IF ParseFile(files, path).err THEN reg
    ELSE MapPut(reg, ParseFile(files, path).skill.ID,
                ParseFile(files, path).skill)

\* a goroutine wakes and runs processFileChange for a Write or Create
ProcessUpdate(g) ==
    /\ g \in wSleepers
    /\ wNow >= g.wake
    /\ g.event.Op \in {"Write", "Create"}
    /\ wSkills' = handleFileUpdate(wSkills, wFiles, g.event.Name)
    /\ wSleepers' = wSleepers \ {g}
    /\ UNCHANGED <<wFiles, wEvents, wWatcher, wNow, wHist, watchRest>>

\* a goroutine wakes and runs processFileChange for a Remove or Rename
ProcessRemoval(g) ==
    /\ g \in wSleepers
    /\ wNow >= g.wake
    /\ g.event.Op \in {"Remove", "Rename"}
    /\ \/ /\ Removable(wSkills, g.event.Name) = {}
          /\ UNCHANGED wSkills
       \/ \E id \in Removable(wSkills, g.event.Name) :
             wSkills' = handleFileRemoval(wSkills, id)
    /\ wSleepers' = wSleepers \ {g}
    /\ wHist' = [wHist EXCEPT !.removal = [made |-> TRUE,
                                           path |-> g.event.Name,
                                           before |-> wSkills,
                                           after |-> wSkills']]
    /\ UNCHANGED <<wFiles, wEvents, wWatcher, wNow, watchRest>>

CanLoad == ~wHist.load.made

\* SkillRegistry.LoadFromDirectory(ctx, dir)
LoadFromDirectory ==
    /\ CanLoad
    /\ wSkills' = IF ParseDirectory(wFiles).err THEN wSkills
                  ELSE RegisterEach(wSkills, ParseDirectory(wFiles).skills)
    /\ wHist' = [wHist EXCEPT !.load = [made |-> TRUE, op |-> "Load",
                                        files |-> wFiles,
                                        after |-> wSkills']]
    /\ UNCHANGED <<wFiles, wEvents, wWatcher, wSleepers, wNow, watchRest>>

\* SkillFileWatcher.ReloadDirectory(ctx, dir): Clear comes first
ReloadDirectory ==
    /\ CanLoad
    /\ wSkills' = IF ParseDirectory(wFiles).err THEN <<>>
                  ELSE RegisterEach(<<>>, ParseDirectory(wFiles).skills)
    /\ wHist' = [wHist EXCEPT !.load = [made |-> TRUE, op |-> "Reload",
                                        files |-> wFiles,
                                        after |-> wSkills']]
    /\ UNCHANGED <<wFiles, wEvents, wWatcher, wSleepers, wNow, watchRest>>

WatcherNext ==
    \/ WatchDirectory
    \/ \E path \in Paths, content \in FileContents : FileWrite(path, content)
    \/ \E path \in Paths, op \in {"Remove", "Rename"} : FileRemove(path, op)
    \/ WatchTick
    \/ ReceiveEvent
    \/ \E g \in wSleepers : ProcessUpdate(g)
    \/ \E g \in wSleepers : ProcessRemoval(g)
    \/ LoadFromDirectory
    \/ ReloadDirectory

SpecWatcher == BusInit /\ [][WatcherNext]_vars

\* the IDs of the skills of a registry that were loaded from the path
LoadedFrom(reg, path) == {id \in DOMAIN reg : reg[id].Path = path}

\* C32: when the watcher has processed the removal or rename of a file, the
\* skills that left the registry are exactly those loaded from that file.
C32_RemovalUnregistersThatSkillOnly ==
    wHist.removal.made =>
        DOMAIN wHist.removal.before \ DOMAIN wHist.removal.after
            = LoadedFrom(wHist.removal.before, wHist.removal.path)

\* the skill files of a directory that ParseContent accepts
ValidFiles(files) ==
    {path \in DOMAIN files : IsMarkdown(path) /\ files[path] # "bad"}

\* the registry holds the skill of the file with the file's content
Registered(reg, files, path) ==
    /\ generateSkillID(path) \in DOMAIN reg
    /\ reg[generateSkillID(path)].Path = path
    /\ reg[generateSkillID(path)].Content = files[path]

\* C33: after LoadFromDirectory or ReloadDirectory every valid skill file of
\* the directory is registered, also when an invalid file lies next to it.
C33_LoadSkipsInvalidFiles ==
    wHist.load.made =>
        \A path \in ValidFiles(wHist.load.files) :
            Registered(wHist.load.after, wHist.load.files, path)

\* no event is waiting and no goroutine of handleFileEvent is left
Quiescent == wEvents = <<>> /\ wSleepers = {}

\* C39: once every event has been received and processed, a skill file
\* whose last event was a removal or rename has no skill in the registry,
\* and one whose last event was a write of a valid document has its skill
\* registered with the content last written.
C39_RegistryConvergesToFiles ==
    (Quiescent /\ ~wHist.load.made) =>
        \A path \in DOMAIN wHist.lastEvent :
            IsMarkdown(path) =>
                IF wHist.lastEvent[path] \in {"Remove", "Rename"}
                THEN LoadedFrom(wSkills, path) = {}
                ELSE path \in ValidFiles(wFiles) =>
                        Registered(wSkills, wFiles, path)

(***************************************************************************)
(* The remote-tool manager with all its calls (SpecMCPManager): besides    *)
(* ConnectClient and DisconnectClient, RefreshTools on the adapter,        *)
(* RemoveClient, and Disconnect called on the client itself.               *)
(***************************************************************************)
\* the manager still holds the client: no RemoveClient has been made
Held == \A i \in DOMAIN mcpCalls : mcpCalls[i].op # "RemoveClient"

ManagerCall(op, err) ==
    [op |-> op, replies |-> <<>>, connectErr |-> FALSE, err |-> err,
     client |-> mcpClient', catalog |-> mcpClient'.tools]

\* MCPClient.Disconnect
Disconnect(c) ==
    IF ~c.connected THEN c
    ELSE [c EXCEPT !.connected = FALSE, !.initialized = FALSE, !.tools = {}]

\* a holder of the client calls client.Disconnect() without the manager
ClientDisconnect ==
    /\ Len(mcpCalls) < MaxMCPCalls
    /\ mcpClient' = Disconnect(mcpClient)
    /\ mcpCalls' = Append(mcpCalls, ManagerCall("Disconnect", FALSE))
    /\ UNCHANGED <<mcpRegistry, mcpWire, mcpRoutines, exceptMCP>>

\* MCPAdapter.RefreshTools: UnregisterTools, then RegisterTools
RefreshTools(order) ==
    /\ Len(mcpCalls) < MaxMCPCalls
    /\ Held
    /\ order \in Orders(mcpClient.tools)
    /\ LET reg == RegisterTools(UnregisterTools(mcpRegistry, mcpClient.tools),
                                order)
       IN /\ mcpRegistry' = reg.reg
          /\ mcpCalls' = Append(mcpCalls, [op |-> "RefreshTools",
                replies |-> <<>>, connectErr |-> FALSE, err |-> reg.err,
                client |-> mcpClient, catalog |-> mcpClient.tools])
    /\ UNCHANGED <<mcpClient, mcpWire, mcpRoutines, exceptMCP>>

\* MCPManager.RemoveClient: UnregisterTools, client.Close, delete
RemoveClient ==
    /\ Len(mcpCalls) < MaxMCPCalls
    /\ Held
    /\ mcpRegistry' = UnregisterTools(mcpRegistry, mcpClient.tools)
    /\ mcpClient' = Disconnect(mcpClient)
    /\ mcpCalls' = Append(mcpCalls, ManagerCall("RemoveClient", FALSE))
    /\ UNCHANGED <<mcpWire, mcpRoutines, exceptMCP>>

HeldConnectClient(r1, r2, order) == Held /\ ConnectClient(r1, r2, order)
HeldDisconnectClient == Held /\ DisconnectClient

ManagerNext ==
    \/ \E n \in LocalNames : RegisterLocal(n)
    \/ \E r1 \in InitializeReplies, r2 \in ListReplies,
          o \in UNION {Orders(S) : S \in SUBSET RemoteNames} :
              HeldConnectClient(r1, r2, o)
    \/ HeldDisconnectClient
    \/ ClientDisconnect
    \/ \E o \in UNION {Orders(S) : S \in SUBSET RemoteNames} : RefreshTools(o)
    \/ RemoveClient

SpecMCPManager == BusInit /\ [][ManagerNext]_vars

\* the catalog entries whose wrapped tool is in the local registry
RegisteredFor(reg) ==
    {t \in RemoteNames : /\ Prefix \o t \in DOMAIN reg
                         /\ reg[Prefix \o t].kind = "mcp"}

\* C34: while the manager holds the client, the wrapped tools in the local
\* registry are those of the client's catalog when it is connected, and
\* there are none when it is disconnected.
C34_RegistryMirrorsCatalog ==
    Held => RegisteredFor(mcpRegistry) =
                (IF mcpClient.connected THEN mcpClient.tools ELSE {})

(***************************************************************************)
(* A provider's rate limiter (SpecRate): Complete takes one slot from the  *)
(* RateLimiter with Wait() and then makes up to maxRetries requests.       *)
(* Calls are made one after the other.                                     *)
(***************************************************************************)
rateRest == <<busVars, busHist, exceptRate>>

\* the slots of Allow() that are younger than the window: req.After(cutoff)
ValidRequests(requests, now) ==
    SelectSeq(requests, LAMBDA req : req > now - RateWindow)

\* Complete is called and enters rateLimiter.Wait()
RateCompleteBegin ==
    /\ rlCall.pc = "idle"
    /\ rlCall.made < MaxRateCalls
    /\ rlCall' = [rlCall EXCEPT !.pc = "wait", !.attempt = 0,
                                !.made = @ + 1]
    /\ UNCHANGED <<rlRequests, rlNow, rlSent, rateRest>>

\* one turn of the loop of Wait(): Allow() drops the old slots and either
\* refuses, after which Wait sleeps and asks again, or notes a new slot
Allow ==
    /\ rlCall.pc = "wait"
    /\ LET valid == ValidRequests(rlRequests, rlNow)
       IN IF Len(valid) >= RateLimit
          THEN /\ rlRequests' = valid
               /\ UNCHANGED rlCall
          ELSE /\ rlRequests' = Append(valid, rlNow)
               /\ rlCall' = [rlCall EXCEPT !.pc = "request"]
    /\ UNCHANGED <<rlNow, rlSent, rateRest>>

\* doRequest: a request goes to the remote API; Complete returns on success
\* and on an error that is not retryable or was the last attempt, and
\* otherwise waits attempt seconds before the next one
RateDoRequest(out) ==
    /\ rlCall.pc = "request"
    /\ rlSent' = Append(rlSent, rlNow)
    /\ rlCall' = IF out = "retryable" /\ rlCall.attempt + 1 < MaxRetries
                 THEN [rlCall EXCEPT !.pc = "backoff", !.attempt = @ + 1,
                                     !.due = rlNow + rlCall.attempt + 1]
                 ELSE [rlCall EXCEPT !.pc = "idle"]
    /\ UNCHANGED <<rlRequests, rlNow, rateRest>>

\* time.After(attempt * time.Second) fires
RateBackoffOver ==
    /\ rlCall.pc = "backoff"
    /\ rlNow >= rlCall.due
    /\ rlCall' = [rlCall EXCEPT !.pc = "request"]
    /\ UNCHANGED <<rlRequests, rlNow, rlSent, rateRest>>

\* ctx.Done() fires during the wait between attempts
RateCancelled ==
    /\ rlCall.pc = "backoff"
    /\ rlCall' = [rlCall EXCEPT !.pc = "idle"]
    /\ UNCHANGED <<rlRequests, rlNow, rlSent, rateRest>>

\* time passes
RateTick ==
    /\ rlNow < MaxRateNow
    /\ rlNow' = rlNow + 1
    /\ UNCHANGED <<rlRequests, rlCall, rlSent, rateRest>>

RateNext ==
    \/ RateCompleteBegin
    \/ Allow
    \/ \E out \in {"ok", "retryable", "fatal"} : RateDoRequest(out)
    \/ RateBackoffOver
    \/ RateCancelled
    \/ RateTick

SpecRate == BusInit /\ [][RateNext]_vars

\* the requests sent to the API in the window that begins at time t
SentInWindow(t) ==
    Cardinality({i \in DOMAIN rlSent :
                    rlSent[i] >= t /\ rlSent[i] < t + RateWindow})

\* C35: in no window of the limiter's length were more requests sent to the
\* remote API than the limit, every attempt counted.
C35_RequestsWithinLimit ==
    \A t \in 0..MaxRateNow : SentInWindow(t) <= RateLimit


(***************************************************************************)
(* Overlapping executions of one task (src/internal/scheduler/             *)
(* scheduler.go): processTasks starts executeTask in a goroutine of its    *)
(* own for every task it receives.                                         *)
(***************************************************************************)
\* the executions of task id whose handler is running
InHandler(id) ==
    {e \in DOMAIN executions :
         executions[e].id = id /\ executions[e].pc = "handler"}

\* C36: at no time are two executions of the handler of one task in
\* progress: a task whose handler is still running is not started again by
\* a tick or by TriggerTask before the running execution has finished.
C36_OneExecutionPerTask ==
    \A id \in TaskIDs : Cardinality(InHandler(id)) <= 1


(***************************************************************************)
(* The scheduler under its controls (src/internal/scheduler/scheduler.go,  *)
(* task_manager.go): tasks are disabled and enabled again while the loops  *)
(* run, and the task manager pauses and resumes the scheduler.  Pause is   *)
(* Stop and resume is Start, on the one Scheduler NewScheduler built: its  *)
(* context, ticker and channels are made there and nowhere else.           *)
(***************************************************************************)
\* Scheduler.DisableTask(taskID), under the write lock
SchedDisableTask(taskID) ==
    /\ Alive
    /\ IF taskID \notin DOMAIN tasks
       THEN UNCHANGED tasks
       ELSE tasks' = [tasks EXCEPT ![taskID].Enabled = FALSE]
    /\ UNCHANGED <<scheduler, schedLoops, executions, schedNow, tasksFile,
                   manager, schedHist, nonSched>>

\* Scheduler.EnableTask(taskID), under the write lock
SchedEnableTask(taskID) ==
    /\ Alive
    /\ IF taskID \notin DOMAIN tasks
       THEN UNCHANGED tasks
       ELSE tasks' = [tasks EXCEPT ![taskID].Enabled = TRUE]
    /\ UNCHANGED <<scheduler, schedLoops, executions, schedNow, tasksFile,
                   manager, schedHist, nonSched>>

\* TaskManager.PauseScheduler(): Scheduler.Stop().  cancel() and
\* ticker.Stop() may be called again; close() of a channel that is closed
\* already panics
PauseScheduler ==
    /\ Alive
    /\ IF ~scheduler.running
       THEN UNCHANGED <<scheduler, schedHist>>
       ELSE /\ scheduler' = [scheduler EXCEPT !.running = FALSE,
                                              !.ctxDone = TRUE,
                                              !.tickerStopped = TRUE,
                                              !.closed = TRUE,
                                              !.panicked = scheduler.closed]
            /\ schedHist' = [schedHist EXCEPT !.stopped = TRUE]
    /\ UNCHANGED <<tasks, schedLoops, executions, schedNow, tasksFile, manager,
                   nonSched>>

\* TaskManager.ResumeScheduler() after a pause: Scheduler.Start() sets
\* running and starts run() and processTasks() anew, over the context,
\* the ticker and the channels that Stop left.  Loops of the earlier start
\* that have not returned yet wait in the same select as the new ones
ResumeScheduler ==
    /\ Alive
    /\ schedHist.stopped
    /\ IF scheduler.running
       THEN UNCHANGED <<scheduler, schedLoops>>
       ELSE /\ scheduler' = [scheduler EXCEPT !.running = TRUE]
            /\ schedLoops' = [run |-> "select", proc |-> "select"]
    /\ UNCHANGED <<tasks, executions, schedNow, tasksFile, manager, schedHist,
                   nonSched>>

ControlNext ==
    \/ \E id \in TaskIDs, cronExpr \in SchedExprs, handler \in TaskHandlers :
          SchedAddTask(id, cronExpr, handler)
    \/ SchedStart
    \/ PauseScheduler
    \/ ResumeScheduler
    \/ \E id \in TaskIDs : SchedDisableTask(id)
    \/ \E id \in TaskIDs : SchedEnableTask(id)
    \/ \E id \in TaskIDs : SchedTriggerTask(id)
    \/ Advance
    \/ TickerFire
    \/ RunTick
    \/ RunExit
    \/ ProcReceive
    \/ ProcExit
    \/ \E e \in DOMAIN executions : ExecBegin(e)
    \/ \E e \in DOMAIN executions : ExecFinish(e)

SpecSchedControl == BusInit /\ [][ControlNext]_vars

\* execution e goes from spawned to the call of its handler in this step
StartsHandler(e) ==
    /\ executions[e].pc = "spawned"
    /\ executions'[e].pc = "handler"

\* C37: once DisableTask(id) has returned, the handler of task id is not
\* started until the task is enabled again, also when the task was on the
\* work queue before the call.  AddTask enables every task it adds, so a
\* task is disabled only through DisableTask.
C37_DisabledTaskNotStarted ==
    [][\A e \in DOMAIN executions :
           StartsHandler(e) => tasks[executions[e].id].Enabled]_vars

\* the scheduler runs again after a pause
Resumed == scheduler.running /\ schedHist.stopped

\* C38: after PauseScheduler and ResumeScheduler the scheduler works as it
\* did before the pause: no call made and no step taken while it runs
\* again ends in a panic, be it TriggerTask for an enabled task, a tick
\* that finds a task due or a later Stop.
C38_ResumedSchedulerWorks ==
    [][Resumed => ~scheduler'.panicked]_vars

====
